---- MODULE Spec2Model ----
(***************************************************************************)
(* A model of the specification parsers of cuppa-tools:                    *)
(*   JSONSchemaParser   (generators/component-types.ts)                    *)
(*   OpenAPIParser      (generators/openapi-types.ts)                      *)
(*   DesignTokensParser (design-tokens-types)                              *)
(* Every parser is a pure function of its input document. Each has its own *)
(* specification: Init draws the input document from a bounded set and the *)
(* actions are the steps of the parse (one loop iteration, one branch).    *)
(*                                                                         *)
(* Conventions for JavaScript values:                                      *)
(*   - an optional field is a sequence of length 0 (undefined) or 1;       *)
(*   - an object (Record<string, T>) is the sequence of its entries in     *)
(*     own-property order, the order Object.entries walks; keys distinct;  *)
(*   - a string the code takes apart is a sequence of one-character        *)
(*     strings; a string the code only compares or copies is a TLA+ string.*)
(***************************************************************************)
EXTENDS Integers, Sequences, FiniteSets, TLC

VARIABLES
    schema,        \* JSONSchemaParser.parse: the argument
    schemaPc,      \* "idle" | "start" | "props" | "done" | "error"
    propIdx,       \* parseProperties: index of the next entry of Object.entries
    parsedProps,   \* parseProperties: the ParsedProperty list built so far
    schemaResult   \* parse: <<>> until it returns, then <<ParsedModel>>

schemaVars == <<schema, schemaPc, propIdx, parsedProps, schemaResult>>

VARIABLES
    paths,         \* OpenAPIParser.parse: spec.paths, the entries Object.entries walks
    apiPc,         \* "idle" | "paths" | "done"
    pathIdx,       \* parseEndpoints: index of the current path entry
    methodIdx,     \* parseEndpoints: index into `methods` for the current path
    endpoints,     \* parseEndpoints: the ParsedEndpoint list built so far
    apiResult      \* parse: <<>> until it returns, then <<ParsedAPI>>

apiVars == <<paths, apiPc, pathIdx, methodIdx, endpoints, apiResult>>

VARIABLES
    rtSchema,      \* OpenAPIParser.resolveType: the argument
    rtPc,          \* "idle" | "call" | "done"
    rtResult       \* resolveType: <<>> until it returns, then <<the type>>

resolveVars == <<rtSchema, rtPc, rtResult>>

VARIABLES
    tokens,        \* DesignTokensParser.parse: the argument
    tokPc,         \* "idle" | the category parsed next | "done" | "error"
    theme,         \* the category lists evaluated so far for the returned object
    themeResult    \* parse: <<>> until it returns, then <<ParsedTheme>>

tokenVars == <<tokens, tokPc, theme, themeResult>>

VARIABLES
    compSpec,      \* ComponentSpecParser.parse: the argument
    compPc,        \* "idle" | the part evaluated next | "done" | "generated"
    component,     \* the fields evaluated so far for the returned object
    compResult,    \* parse: <<>> until it returns, then <<ParsedComponent>>
    compText       \* SwiftComponentGenerator.generate: the text returned

componentVars == <<compSpec, compPc, component, compResult, compText>>

VARIABLES
    plugSpec,      \* PluginSpecParser.parse: the argument
    plugPc,        \* "idle" | "parse" | the file generated next | "done"
    plugin,        \* parse: <<>> until it returns, then <<ParsedPlugin>>
    fileIdx,       \* generatePlugin: index of the model or provider walked
    files          \* generatePlugin: the Map's entries, in insertion order

pluginVars == <<plugSpec, plugPc, plugin, fileIdx, files>>

VARIABLES
    genPc,         \* "idle" | "first" | "second" | "done": the generator call made next
    firstCall,     \* the first call of a generator: its arguments, date and text
    secondCall     \* the second call

generateVars == <<genPc, firstCall, secondCall>>

VARIABLES
    cliOpts,       \* the command line: command, --platform, --output, --overwrite,
                   \*   --dry-run, --no-git
    cliEnv,        \* what the command finds: cuppa.config.json, the source files,
                   \*   the output paths that cannot be written, whether git runs
    cliPc,         \* "idle" | the step the command takes next | "done" | "failed"
    srcIdx,        \* generateModel: index of the schema file processed
    platIdx,       \* index of the platform processed
    fsDirs,        \* the directories that exist
    fsFiles,       \* the files that exist, each with its content
    fsStart,       \* history: the directories and files when the command started
    generatedCount,\* the local generatedCount / fileCount
    reported,      \* <<>>, or the count the closing message of the run gives
    cliLog,        \* what the logger was given, in order
    exitCode,      \* <<>> while the command runs, then the process exit code
    written,       \* history: the paths of the writes that completed, in order
    subprocesses   \* history: the commands run through execAsync

commandVars ==
    <<cliOpts, cliEnv, cliPc, srcIdx, platIdx, fsDirs, fsFiles, fsStart,
      generatedCount, reported, cliLog, exitCode, written, subprocesses>>

VARIABLES
    today          \* the date `new Date().toISOString().split('T')[0]` gives

vars ==
    <<schemaVars, apiVars, resolveVars, tokenVars, componentVars, pluginVars,
      generateVars, commandVars, today>>

\* what each parser leaves alone: the parsers share no state
OtherThanSchema ==
    <<apiVars, resolveVars, tokenVars, componentVars, pluginVars, generateVars, commandVars, today>>
OtherThanAPI ==
    <<schemaVars, resolveVars, tokenVars, componentVars, pluginVars, generateVars, commandVars, today>>
OtherThanResolve ==
    <<schemaVars, apiVars, tokenVars, componentVars, pluginVars, generateVars, commandVars, today>>
OtherThanTokens ==
    <<schemaVars, apiVars, resolveVars, componentVars, pluginVars, generateVars, commandVars, today>>
OtherThanComponent ==
    <<schemaVars, apiVars, resolveVars, tokenVars, pluginVars, generateVars, commandVars, today>>
OtherThanPlugin ==
    <<schemaVars, apiVars, resolveVars, tokenVars, componentVars, generateVars,
      commandVars>>
OtherThanGenerate ==
    <<schemaVars, apiVars, resolveVars, tokenVars, componentVars, pluginVars,
      commandVars>>
OtherThanCommand ==
    <<schemaVars, apiVars, resolveVars, tokenVars, componentVars, pluginVars,
      generateVars, today>>

(***************************************************************************)
(* JavaScript helpers                                                      *)
(***************************************************************************)
Undefined == <<>>

Some(x) == <<x>>

\* `opt || dflt` for an optional object or list (an object is always truthy)
OrElse(opt, dflt) == IF opt = Undefined THEN dflt ELSE opt[1]

\* Array.prototype.includes
Includes(list, x) == \E i \in 1..Len(list) : list[i] = x

\* Array.prototype.find: <<>> when nothing matches
RECURSIVE FindNonNull(_)
FindNonNull(list) ==
    IF list = <<>> THEN Undefined
    ELSE IF Head(list) # "null" THEN Some(Head(list))
    ELSE FindNonNull(Tail(list))

\* all sequences over S of length at most n
SeqsUpTo(S, n) == UNION {[1..k -> S] : k \in 0..n}

\* the sequences of SeqsUpTo(S, n) without a repeated element
DistinctSeqsUpTo(S, n) ==
    {s \in SeqsUpTo(S, n) : \A i, j \in 1..Len(s) : i # j => s[i] # s[j]}

(***************************************************************************)
(* JSONSchemaParser                                                        *)
(***************************************************************************)
\* JSONSchemaProperty.type is a string or a list of strings
TypeName(t) == [isList |-> FALSE, names |-> <<t>>]
TypeUnion(ts) == [isList |-> TRUE, names |-> ts]

\* resolveType(prop): <<>> stands for undefined
JSONSchemaParser_resolveType(prop) ==
    IF prop.type.isList
    THEN LET nonNullType == FindNonNull(prop.type.names)
         IN  OrElse(nonNullType, "any")
    ELSE prop.type.names[1]

\* a slip in parseProperty: `&&` in place of `||` for `optional`
parseProperty_optionalAnd(name, prop, isRequired) ==
    LET type == JSONSchemaParser_resolveType(prop)
        isArray == (type = "array")
        actualType == IF isArray /\ prop.items # Undefined
                      THEN JSONSchemaParser_resolveType(prop.items[1])
                      ELSE type
    IN  [name |-> name,
         type |-> actualType,
         optional |-> (~isRequired /\ prop.nullable = "true"),
         isArray |-> isArray]

parseProperty(name, prop, isRequired) ==
    LET type == JSONSchemaParser_resolveType(prop)
        isArray == (type = "array")
        actualType == IF isArray /\ prop.items # Undefined
                      THEN JSONSchemaParser_resolveType(prop.items[1])
                      ELSE type
    IN  [name |-> name,
         type |-> actualType,
         optional |-> (~isRequired \/ prop.nullable = "true"),
         isArray |-> isArray]

\* ---- the input documents the model draws from ----
MaxProps == 2

PropertyNames == {"id", "age", "tags"}

TypeChoices ==
    {TypeName("string"), TypeName("array"),
     TypeUnion(<<"null">>), TypeUnion(<<"null", "array">>)}

\* `items` of an array property: a string element, or an array of strings
ItemChoices ==
    {Undefined,
     Some([type |-> TypeName("string"), items |-> Undefined, nullable |-> "undefined"]),
     Some([type |-> TypeName("array"),
           items |-> Some([type |-> TypeName("string"), items |-> Undefined,
                           nullable |-> "undefined"]),
           nullable |-> "undefined"])}

PropertyChoices ==
    {[type |-> t, items |-> i, nullable |-> "undefined"] :
        t \in TypeChoices, i \in ItemChoices}
    \cup {[type |-> TypeName("string"), items |-> Undefined, nullable |-> n] :
            n \in {"true", "false"}}

\* Record<string, JSONSchemaProperty>: entries with distinct keys
PropertyRecords ==
    {e \in SeqsUpTo([name : PropertyNames, prop : PropertyChoices], MaxProps) :
        \A i, j \in 1..Len(e) : i # j => e[i].name # e[j].name}

RequiredChoices ==
    {Undefined, Some(<<>>), Some(<<"id">>), Some(<<"age", "id">>)}

RootTypes == {"object", "array", "string"}

Schemas ==
    {[type |-> t, properties |-> p, required |-> r] :
        t \in RootTypes,
        p \in {Undefined} \cup {Some(e) : e \in PropertyRecords},
        r \in RequiredChoices}

\* ---- JSONSchemaParser.parse, step by step ----
SchemaIdle ==
    /\ schema = [type |-> "object", properties |-> Undefined, required |-> Undefined]
    /\ schemaPc = "idle"
    /\ propIdx = 1
    /\ parsedProps = <<>>
    /\ schemaResult = Undefined

SchemaStart ==
    /\ schema \in Schemas
    /\ schemaPc = "start"
    /\ propIdx = 1
    /\ parsedProps = <<>>
    /\ schemaResult = Undefined

\* Object.entries(schema.properties || {})
SchemaEntries == OrElse(schema.properties, <<>>)

\* schema.required || []
SchemaRequired == OrElse(schema.required, <<>>)

\* a slip in the guard: array roots let through
IsObjectRoot_orArray(s) == s.type \in {"object", "array"}

\* the guard of parse
IsObjectRoot(s) == s.type = "object"

\* parse: `throw new Error('Only object schemas are supported ...')`
ParseThrow ==
    /\ schemaPc = "start"
    /\ ~IsObjectRoot(schema)
    /\ schemaPc' = "error"
    /\ UNCHANGED <<schema, propIdx, parsedProps, schemaResult>>
    /\ UNCHANGED OtherThanSchema

\* parse: the root is an object, parseProperties is entered
ParseEnter ==
    /\ schemaPc = "start"
    /\ IsObjectRoot(schema)
    /\ schemaPc' = "props"
    /\ UNCHANGED <<schema, propIdx, parsedProps, schemaResult>>
    /\ UNCHANGED OtherThanSchema

\* a slip in parseProperties: entries that are not required are filtered out
ParsePropertiesStep_requiredOnly ==
    /\ schemaPc = "props"
    /\ propIdx <= Len(SchemaEntries)
    /\ LET e == SchemaEntries[propIdx]
       IN  parsedProps' =
             IF Includes(SchemaRequired, e.name)
             THEN Append(parsedProps, parseProperty(e.name, e.prop, TRUE))
             ELSE parsedProps
    /\ propIdx' = propIdx + 1
    /\ UNCHANGED <<schema, schemaPc, schemaResult>>
    /\ UNCHANGED OtherThanSchema

\* parseProperties: one callback of Object.entries(properties).map
ParsePropertiesStep ==
    /\ schemaPc = "props"
    /\ propIdx <= Len(SchemaEntries)
    /\ LET e == SchemaEntries[propIdx]
       IN  parsedProps' =
             Append(parsedProps,
                    parseProperty(e.name, e.prop, Includes(SchemaRequired, e.name)))
    /\ propIdx' = propIdx + 1
    /\ UNCHANGED <<schema, schemaPc, schemaResult>>
    /\ UNCHANGED OtherThanSchema

\* parse: `return { name, description, properties }`
ParseReturn ==
    /\ schemaPc = "props"
    /\ propIdx > Len(SchemaEntries)
    /\ schemaResult' = Some([properties |-> parsedProps])
    /\ schemaPc' = "done"
    /\ UNCHANGED <<schema, propIdx, parsedProps>>
    /\ UNCHANGED OtherThanSchema

SchemaNext == ParseThrow \/ ParseEnter \/ ParsePropertiesStep \/ ParseReturn


(***************************************************************************)
(* Claims about JSONSchemaParser (checked under SpecSchema)                *)
(***************************************************************************)
\* the declared property the i-th output entry is parsed from
DeclaredEntry(i) == schema.properties[1][i]

\* p's name is listed in the schema's `required` (a missing list is empty)
ListedRequired(n) ==
    /\ schema.required # Undefined
    /\ \E k \in 1..Len(schema.required[1]) : schema.required[1][k] = n

\* C1: for every object-rooted schema and every declared property p, the
\* parsed property is optional if and only if p's name is not in `required`
\* or p.nullable is exactly true.
C1_OptionalIffNotRequiredOrNullable ==
    \A i \in 1..Len(parsedProps) :
        parsedProps[i].optional <=>
            (~ListedRequired(DeclaredEntry(i).name)
                \/ DeclaredEntry(i).prop.nullable = "true")

\* C1 witness: a returned model with a required nullable property (optional
\* by nullability alone) next to a required, non-nullable one (not optional).
C1_Witness ==
    /\ schemaPc = "done"
    /\ \E i, j \in 1..Len(schemaResult[1].properties) :
        /\ ListedRequired(DeclaredEntry(i).name)
        /\ DeclaredEntry(i).prop.nullable = "true"
        /\ schemaResult[1].properties[i].optional
        /\ ListedRequired(DeclaredEntry(j).name)
        /\ DeclaredEntry(j).prop.nullable # "true"
        /\ ~schemaResult[1].properties[j].optional

\* C2: the returned property list has exactly one entry per key of
\* schema.properties, same names, same order; none without `properties`.
C2_PropertiesPreserved ==
    schemaPc = "done" =>
        LET out == schemaResult[1].properties
        IN  IF schema.properties = Undefined
            THEN out = <<>>
            ELSE /\ Len(out) = Len(schema.properties[1])
                 /\ \A i \in 1..Len(out) : out[i].name = schema.properties[1][i].name

\* C2 witness: two declared properties, one of them not required, returned.
C2_Witness ==
    /\ schemaPc = "done"
    /\ schema.properties # Undefined
    /\ Len(schema.properties[1]) = 2
    /\ ~ListedRequired(schema.properties[1][1].name)
    /\ Len(schemaResult[1].properties) = 2

\* C3: parse throws, returning no ParsedModel, whenever the root type is not
\* "object"; for a root of type "object" it never throws and runs to its
\* return.
C3_OnlyObjectRoots ==
    /\ schemaPc = "error" => (schema.type # "object" /\ schemaResult = Undefined)
    /\ schemaPc = "done" => (schema.type = "object" /\ schemaResult # Undefined)
    /\ schema.type # "object" => schemaPc \in {"start", "error"}
    /\ schemaPc \notin {"done", "error"} => ENABLED SchemaNext

\* C3 witness: an array-rooted schema that declares properties was rejected.
C3_Witness ==
    /\ schemaPc = "error"
    /\ schema.type = "array"
    /\ schema.properties # Undefined
    /\ schema.properties[1] # <<>>
    /\ schemaResult = Undefined

\* C4 (as claimed): in every returned model, a property with isArray = TRUE
\* has the element type as its type, never the string "array" itself.
C4_ArrayTypeIsElementType ==
    schemaPc = "done" =>
        \A i \in 1..Len(schemaResult[1].properties) :
            schemaResult[1].properties[i].isArray =>
                schemaResult[1].properties[i].type # "array"

(***************************************************************************)
(* Strings as character sequences                                          *)
(***************************************************************************)
LowerLetters ==
    <<"a", "b", "c", "d", "e", "f", "g", "h", "i", "j", "k", "l", "m",
      "n", "o", "p", "q", "r", "s", "t", "u", "v", "w", "x", "y", "z">>

UpperLetters ==
    <<"A", "B", "C", "D", "E", "F", "G", "H", "I", "J", "K", "L", "M",
      "N", "O", "P", "Q", "R", "S", "T", "U", "V", "W", "X", "Y", "Z">>

UpperChar(c) ==
    IF \E i \in 1..Len(LowerLetters) : LowerLetters[i] = c
    THEN UpperLetters[CHOOSE i \in 1..Len(LowerLetters) : LowerLetters[i] = c]
    ELSE c

LowerChar(c) ==
    IF \E i \in 1..Len(UpperLetters) : UpperLetters[i] = c
    THEN LowerLetters[CHOOSE i \in 1..Len(UpperLetters) : UpperLetters[i] = c]
    ELSE c

\* String.prototype.toUpperCase / toLowerCase
ToUpperCase(str) == [i \in 1..Len(str) |-> UpperChar(str[i])]
ToLowerCase(str) == [i \in 1..Len(str) |-> LowerChar(str[i])]

\* str.split(sep) for a one-character separator: always at least one part
RECURSIVE SplitFrom(_, _, _)
SplitFrom(str, sep, part) ==
    IF str = <<>> THEN <<part>>
    ELSE IF Head(str) = sep THEN <<part>> \o SplitFrom(Tail(str), sep, <<>>)
    ELSE SplitFrom(Tail(str), sep, Append(part, Head(str)))

Split(str, sep) == SplitFrom(str, sep, <<>>)

\* parts.filter(p => p): the empty string is falsy
RECURSIVE FilterNonEmpty(_)
FilterNonEmpty(parts) ==
    IF parts = <<>> THEN <<>>
    ELSE IF Head(parts) # <<>> THEN <<Head(parts)>> \o FilterNonEmpty(Tail(parts))
    ELSE FilterNonEmpty(Tail(parts))

\* parts.join('')
RECURSIVE Join(_)
Join(parts) == IF parts = <<>> THEN <<>> ELSE Head(parts) \o Join(Tail(parts))

\* str.startsWith(c) / str.endsWith(c) for a one-character c
StartsWith(str, c) == str # <<>> /\ str[1] = c
EndsWith(str, c) == str # <<>> /\ str[Len(str)] = c

\* str.slice(1, -1)
SliceInner(str) == IF Len(str) <= 2 THEN <<>> ELSE SubSeq(str, 2, Len(str) - 1)

(***************************************************************************)
(* OpenAPIParser                                                           *)
(***************************************************************************)
\* a slip in capitalize: the first character is kept as it is
capitalize_unchanged(str) == str

\* capitalize(str): str.charAt(0).toUpperCase() + str.slice(1)
capitalize(str) ==
    IF str = <<>> THEN <<>> ELSE <<UpperChar(str[1])>> \o Tail(str)

\* the callback of parts.map in generateOperationId
sanitizeSegment(p) ==
    IF StartsWith(p, "{") /\ EndsWith(p, "}")
    THEN <<"B", "y">> \o capitalize(SliceInner(p))
    ELSE capitalize(p)

generateOperationId(method, path) ==
    LET parts == FilterNonEmpty(Split(path, "/"))
        sanitized == [i \in 1..Len(parts) |-> sanitizeSegment(parts[i])]
    IN  ToLowerCase(method) \o Join(sanitized)

\* a slip in resolveType: the array branch tested before $ref
RECURSIVE OpenAPIParser_resolveType_arrayFirst(_)
OpenAPIParser_resolveType_arrayFirst(s) ==
    IF s.type = Some("array") /\ s.items # Undefined
    THEN OpenAPIParser_resolveType_arrayFirst(s.items[1])
    ELSE IF s.ref # Undefined /\ s.ref[1] # <<>>
    THEN LET parts == Split(s.ref[1], "/")
         IN  [named |-> TRUE, name |-> parts[Len(parts)], type |-> ""]
    ELSE [named |-> FALSE, name |-> <<>>,
          type |-> IF s.type # Undefined /\ s.type[1] # "" THEN s.type[1] ELSE "any"]

\* resolveType(schema). The result is a string: [named |-> TRUE, name |-> n]
\* is the model name n cut out of a $ref (a character sequence), and
\* [named |-> FALSE, type |-> t] is the type name t or "any"
RECURSIVE OpenAPIParser_resolveType(_)
OpenAPIParser_resolveType(s) ==
    IF s.ref # Undefined /\ s.ref[1] # <<>>
    THEN LET parts == Split(s.ref[1], "/")
         IN  [named |-> TRUE, name |-> parts[Len(parts)], type |-> ""]
    ELSE IF s.type = Some("array") /\ s.items # Undefined
    THEN OpenAPIParser_resolveType(s.items[1])
    ELSE [named |-> FALSE, name |-> <<>>,
          type |-> IF s.type # Undefined /\ s.type[1] # "" THEN s.type[1] ELSE "any"]

parseParameter(param) ==
    LET isArray == (param.schema.type = Some("array"))
        type == IF isArray /\ param.schema.items # Undefined
                THEN OpenAPIParser_resolveType(param.schema.items[1])
                ELSE OpenAPIParser_resolveType(param.schema)
    IN  [name |-> param.name,
         type |-> type,
         required |-> (param.required = "true"),
         isArray |-> isArray]

\* list.filter(p => p.in === where)
RECURSIVE FilterIn(_, _)
FilterIn(list, where) ==
    IF list = <<>> THEN <<>>
    ELSE IF Head(list).in = where THEN <<Head(list)>> \o FilterIn(Tail(list), where)
    ELSE FilterIn(Tail(list), where)

\* list.map(p => this.parseParameter(p))
MapParseParameter(list) == [i \in 1..Len(list) |-> parseParameter(list[i])]

\* a slip in parseOperation: cookie parameters sent along as headers
parseOperation_cookieAsHeader(method, path, operation, pathParams) ==
    LET operationId ==
            IF operation.operationId # Undefined /\ operation.operationId[1] # <<>>
            THEN operation.operationId[1]
            ELSE generateOperationId(method, path)
        allParams == pathParams \o OrElse(operation.parameters, <<>>)
    IN  [operationId |-> operationId,
         method |-> ToUpperCase(method),
         path |-> path,
         pathParams |-> MapParseParameter(FilterIn(allParams, "path")),
         queryParams |-> MapParseParameter(FilterIn(allParams, "query")),
         headerParams |-> MapParseParameter(FilterIn(allParams, "header")
                                            \o FilterIn(allParams, "cookie"))]

parseOperation(method, path, operation, pathParams) ==
    LET operationId ==
            IF operation.operationId # Undefined /\ operation.operationId[1] # <<>>
            THEN operation.operationId[1]
            ELSE generateOperationId(method, path)
        allParams == pathParams \o OrElse(operation.parameters, <<>>)
        pathParameters == FilterIn(allParams, "path")
        queryParameters == FilterIn(allParams, "query")
        headerParameters == FilterIn(allParams, "header")
    IN  [operationId |-> operationId,
         method |-> ToUpperCase(method),
         path |-> path,
         pathParams |-> MapParseParameter(pathParameters),
         queryParams |-> MapParseParameter(queryParameters),
         headerParams |-> MapParseParameter(headerParameters)]

\* a slip in parseEndpoints: `head` listed among the methods
methods_withHead == <<"get", "post", "put", "patch", "delete", "head">>

\* parseEndpoints: the `methods` list, in its order
methods == <<"get", "post", "put", "patch", "delete">>

\* a method name as the characters the string functions work on
MethodChars(m) ==
    CASE m = "get" -> <<"g", "e", "t">>
      [] m = "post" -> <<"p", "o", "s", "t">>
      [] m = "put" -> <<"p", "u", "t">>
      [] m = "patch" -> <<"p", "a", "t", "c", "h">>
      [] m = "delete" -> <<"d", "e", "l", "e", "t", "e">>
      [] m = "head" -> <<"h", "e", "a", "d">>

\* ---- the input documents the model draws from ----
MaxPaths == 2
MaxParams == 2
MaxPathLen == 5

StringSchema == [ref |-> Undefined, type |-> Some("string"), items |-> Undefined]

StringArraySchema ==
    [ref |-> Undefined, type |-> Some("array"), items |-> Some(StringSchema)]

Param(n, where) ==
    [name |-> n, in |-> where, required |-> "undefined", schema |-> StringSchema]

\* parameters declared on the path item, one per location
SharedParams ==
    {Param("sPath", "path"), Param("sQuery", "query"),
     Param("sHeader", "header"), Param("sCookie", "cookie")}

\* parameters declared on the operation, one per location; the query one is
\* a required array of strings
OwnParams ==
    {Param("oPath", "path"),
     [name |-> "oQuery", in |-> "query", required |-> "true",
      schema |-> StringArraySchema],
     Param("oHeader", "header"), Param("oCookie", "cookie")}

OptionalLists(S) == {Undefined} \cup {Some(l) : l \in SeqsUpTo(S, MaxParams)}

\* the keys of a path item that hold operations; `head` is one OpenAPI allows
\* and the parser does not list
OperationKeys == {"get", "post", "put", "patch", "delete", "head"}

\* OpenAPIPath: ops maps each operation key to its operation, if declared
PathItem(ops, params) ==
    [get |-> ops["get"], post |-> ops["post"], put |-> ops["put"],
     patch |-> ops["patch"], delete |-> ops["delete"], head |-> ops["head"],
     parameters |-> params]

\* the operations of `declared`, without parameters; the one of idMethod
\* declares operationId id
Operations(declared, idMethod, id) ==
    [m \in OperationKeys |->
        IF m \in declared
        THEN Some([operationId |-> IF m = idMethod THEN id ELSE Undefined,
                   parameters |-> Undefined])
        ELSE Undefined]

\* one operation, of method m
OneOperation(m, op) == [k \in OperationKeys |-> IF k = m THEN Some(op) ELSE Undefined]

PathUsers == <<"/", "u", "s", "e", "r", "s">>
PathUsersId == <<"/", "u", "s", "e", "r", "s", "/", "{", "i", "d", "}">>
PathUsersById == <<"/", "u", "s", "e", "r", "s", "B", "y", "I", "d">>
IdGetUsersById == <<"g", "e", "t", "U", "s", "e", "r", "s", "B", "y", "I", "d">>

\* documents about which operations a path item declares, and their ids:
\* <<declared keys, shared parameters, the method that may declare an id>>
DeclaredShapes ==
    {<<{"head"}, Some(<<Param("sCookie", "cookie")>>), "head">>,
     <<{"get"}, Undefined, "get">>,
     <<{"post", "delete"}, Some(<<Param("sQuery", "query")>>), "delete">>,
     <<OperationKeys, Undefined, "post">>}

OperationIdChoices == {Undefined, Some(IdGetUsersById)}

EndpointItems ==
    {PathItem(Operations(sh[1], sh[3], id), sh[2]) :
        sh \in DeclaredShapes, id \in OperationIdChoices}

\* the operations of a document that declare an operationId
DeclaresId(d) ==
    {im \in (1..Len(d)) \X OperationKeys :
        /\ d[im[1]].item[im[2]] # Undefined
        /\ d[im[1]].item[im[2]][1].operationId # Undefined}

\* distinct path keys; declared operationIds are unique, as OpenAPI requires
EndpointDocs ==
    {d \in SeqsUpTo([path : {PathUsers, PathUsersId, PathUsersById},
                     item : EndpointItems], MaxPaths) :
        /\ \A i, j \in 1..Len(d) : i # j => d[i].path # d[j].path
        /\ Cardinality(DeclaresId(d)) <= 1}

\* documents about parameters: one operation, both levels of parameters
ParamDocs ==
    {<<[path |-> PathUsersId,
        item |-> PathItem(OneOperation("get", [operationId |-> Undefined,
                                               parameters |-> own]),
                          shared)]>> :
        own \in OptionalLists(OwnParams), shared \in OptionalLists(SharedParams)}

\* documents about derived ids: one operation without operationId on any path
\* string over a small alphabet, and one whose operationId is ""
PathAlphabet == {"/", "{", "}", "a"}

IdDocs ==
    {<<[path |-> p,
        item |-> PathItem(OneOperation("patch", [operationId |-> Undefined,
                                                 parameters |-> Undefined]),
                          Undefined)]>> :
        p \in SeqsUpTo(PathAlphabet, MaxPathLen)}
    \cup {<<[path |-> PathUsersId,
             item |-> PathItem(OneOperation("get", [operationId |-> Some(<<>>),
                                                    parameters |-> Undefined]),
                               Undefined)]>>}

\* ---- OpenAPIParser.parse, step by step ----
APIIdle ==
    /\ paths = <<>>
    /\ apiPc = "idle"
    /\ pathIdx = 1
    /\ methodIdx = 1
    /\ endpoints = <<>>
    /\ apiResult = Undefined

APIStart ==
    /\ paths \in EndpointDocs \cup ParamDocs \cup IdDocs
    /\ apiPc = "paths"
    /\ pathIdx = 1
    /\ methodIdx = 1
    /\ endpoints = <<>>
    /\ apiResult = Undefined

\* parseEndpoints: `if (operation)` holds, the endpoint is pushed
ParseEndpointsPush ==
    /\ apiPc = "paths"
    /\ pathIdx <= Len(paths)
    /\ methodIdx <= Len(methods)
    /\ LET path == paths[pathIdx].path
           pathItem == paths[pathIdx].item
           method == methods[methodIdx]
           operation == pathItem[method]
       IN  /\ operation # Undefined
           /\ endpoints' =
                Append(endpoints,
                       parseOperation(MethodChars(method), path, operation[1],
                                      OrElse(pathItem.parameters, <<>>)))
    /\ methodIdx' = methodIdx + 1
    /\ UNCHANGED <<paths, apiPc, pathIdx, apiResult>>
    /\ UNCHANGED OtherThanAPI

\* parseEndpoints: the path item has no operation for the method
ParseEndpointsSkip ==
    /\ apiPc = "paths"
    /\ pathIdx <= Len(paths)
    /\ methodIdx <= Len(methods)
    /\ paths[pathIdx].item[methods[methodIdx]] = Undefined
    /\ methodIdx' = methodIdx + 1
    /\ UNCHANGED <<paths, apiPc, pathIdx, endpoints, apiResult>>
    /\ UNCHANGED OtherThanAPI

\* parseEndpoints: the inner loop is over, the next path entry is taken
ParseEndpointsNextPath ==
    /\ apiPc = "paths"
    /\ pathIdx <= Len(paths)
    /\ methodIdx > Len(methods)
    /\ pathIdx' = pathIdx + 1
    /\ methodIdx' = 1
    /\ UNCHANGED <<paths, apiPc, endpoints, apiResult>>
    /\ UNCHANGED OtherThanAPI

\* parseEndpoints returns, and parse with it
ParseEndpointsReturn ==
    /\ apiPc = "paths"
    /\ pathIdx > Len(paths)
    /\ apiResult' = Some([endpoints |-> endpoints])
    /\ apiPc' = "done"
    /\ UNCHANGED <<paths, pathIdx, methodIdx, endpoints>>
    /\ UNCHANGED OtherThanAPI

APINext ==
    \/ ParseEndpointsPush
    \/ ParseEndpointsSkip
    \/ ParseEndpointsNextPath
    \/ ParseEndpointsReturn

(***************************************************************************)
(* Claims about OpenAPIParser.parseEndpoints / parseOperation (SpecAPI)    *)
(***************************************************************************)
\* the five supported methods and their fixed order, as the claims state them
SupportedMethods == {"get", "post", "put", "patch", "delete"}

MethodRank(m) ==
    CASE m = "get" -> 1 [] m = "post" -> 2 [] m = "put" -> 3
      [] m = "patch" -> 4 [] m = "delete" -> 5

\* the (path, method) pairs for which the document declares an operation
DeclaredPairs ==
    {pm \in (1..Len(paths)) \X SupportedMethods :
        paths[pm[1]].item[pm[2]] # Undefined}

\* endpoint e was built from the operation of (path, method) pair pm
BuiltFrom(e, pm) ==
    /\ e.path = paths[pm[1]].path
    /\ e.method = ToUpperCase(MethodChars(pm[2]))

NamesOf(list) == [j \in 1..Len(list) |-> list[j].name]

\* path-level parameters followed by operation-level parameters
MergedParameters(pm) ==
    LET item == paths[pm[1]].item
    IN  (IF item.parameters = Undefined THEN <<>> ELSE item.parameters[1])
        \o (IF item[pm[2]][1].parameters = Undefined THEN <<>>
            ELSE item[pm[2]][1].parameters[1])

At(list, where) == SelectSeq(list, LAMBDA p : p.in = where)

\* C5: the number of endpoints equals the number of (path, method) pairs
\* with a declared operation among get, post, put, patch, delete; endpoints
\* come in path order and, within a path, in that method order (each endpoint
\* is strictly before its successor in that order); no other key of a path
\* item yields an endpoint.
C5_EndpointPerDeclaredPair ==
    apiPc = "done" =>
        LET E == apiResult[1].endpoints
        IN  /\ Len(E) = Cardinality(DeclaredPairs)
            /\ \A k \in 1..Len(E) : \E pm \in DeclaredPairs : BuiltFrom(E[k], pm)
            /\ \A k \in 1..Len(E) - 1 :
                 LET l == k + 1
                 IN  \E pk, pl \in DeclaredPairs :
                     /\ BuiltFrom(E[k], pk)
                     /\ BuiltFrom(E[l], pl)
                     /\ \/ pk[1] < pl[1]
                        \/ pk[1] = pl[1] /\ MethodRank(pk[2]) < MethodRank(pl[2])

\* C5 witness: a first path item declaring all five methods and `head`, a
\* second declaring post and delete beside shared `parameters`: 7 endpoints.
C5_Witness ==
    /\ apiPc = "done"
    /\ Len(paths) = 2
    /\ \A m \in SupportedMethods \cup {"head"} : paths[1].item[m] # Undefined
    /\ paths[2].item.parameters # Undefined
    /\ paths[2].item.post # Undefined
    /\ paths[2].item.get = Undefined
    /\ Len(apiResult[1].endpoints) = 7

\* C6: for every parsed endpoint, pathParams, queryParams and headerParams
\* hold exactly the parameters of the merged list (path level first, then
\* operation level) located in path, query and header; a cookie parameter of
\* either level is in none of the three.
C6_ParametersByLocation ==
    apiPc = "done" =>
      \A k \in 1..Len(apiResult[1].endpoints) : \A pm \in DeclaredPairs :
        BuiltFrom(apiResult[1].endpoints[k], pm) =>
            LET e == apiResult[1].endpoints[k]
                merged == MergedParameters(pm)
            IN  /\ NamesOf(e.pathParams) = NamesOf(At(merged, "path"))
                /\ NamesOf(e.queryParams) = NamesOf(At(merged, "query"))
                /\ NamesOf(e.headerParams) = NamesOf(At(merged, "header"))
                /\ \A j \in 1..Len(merged) :
                     merged[j].in = "cookie" =>
                       \A b \in {e.pathParams, e.queryParams, e.headerParams} :
                         \A i \in 1..Len(b) : b[i].name # merged[j].name

\* C6 witness: cookie and query parameters at both levels; the query bucket
\* holds the shared one before the operation's own, the others are empty.
C6_Witness ==
    /\ apiPc = "done"
    /\ Len(paths) = 1
    /\ paths[1].item.parameters =
         Some(<<Param("sCookie", "cookie"), Param("sQuery", "query")>>)
    /\ paths[1].item.get # Undefined
    /\ Len(paths[1].item.get[1].parameters[1]) = 2
    /\ paths[1].item.get[1].parameters[1][1].name = "oQuery"
    /\ paths[1].item.get[1].parameters[1][2].name = "oCookie"
    /\ NamesOf(apiResult[1].endpoints[1].queryParams) = <<"sQuery", "oQuery">>
    /\ apiResult[1].endpoints[1].headerParams = <<>>
    /\ apiResult[1].endpoints[1].pathParams = <<>>

\* the last index of the path segment that starts at pos
SegmentEnd(path, pos) ==
    CHOOSE e \in pos..Len(path) :
        /\ \A j \in pos..e : path[j] # "/"
        /\ e = Len(path) \/ path[e + 1] = "/"

FirstUpper(str) == IF str = <<>> THEN <<>> ELSE <<UpperChar(str[1])>> \o Tail(str)

\* `{x}` becomes By + capitalized x, any other segment is capitalized
SegmentId(seg) ==
    IF Len(seg) >= 2 /\ seg[1] = "{" /\ seg[Len(seg)] = "}"
    THEN <<"B", "y">> \o FirstUpper(SubSeq(seg, 2, Len(seg) - 1))
    ELSE FirstUpper(seg)

\* the concatenation over the non-empty segments from pos on
RECURSIVE SegmentIdsFrom(_, _)
SegmentIdsFrom(path, pos) ==
    IF pos > Len(path) THEN <<>>
    ELSE IF path[pos] = "/" THEN SegmentIdsFrom(path, pos + 1)
    ELSE SegmentId(SubSeq(path, pos, SegmentEnd(path, pos)))
            \o SegmentIdsFrom(path, SegmentEnd(path, pos) + 1)

\* C7: without operationId (or with an empty one) the id is the lower-cased
\* method followed by the non-empty path segments, each capitalized, `{x}`
\* as By + capitalized x; a declared non-empty operationId is kept unchanged.
C7_OperationId ==
    apiPc = "done" =>
      \A k \in 1..Len(apiResult[1].endpoints) : \A pm \in DeclaredPairs :
        BuiltFrom(apiResult[1].endpoints[k], pm) =>
            LET declared == paths[pm[1]].item[pm[2]][1].operationId
            IN  IF declared # Undefined /\ declared[1] # <<>>
                THEN apiResult[1].endpoints[k].operationId = declared[1]
                ELSE apiResult[1].endpoints[k].operationId =
                       ToLowerCase(MethodChars(pm[2]))
                         \o SegmentIdsFrom(paths[pm[1]].path, 1)

\* C7 witness: get on /users/{id} without operationId gave getUsersById.
C7_Witness ==
    /\ apiPc = "done"
    /\ \E k \in 1..Len(endpoints) :
        /\ endpoints[k].path = PathUsersId
        /\ endpoints[k].method = <<"G", "E", "T">>
        /\ \E i \in 1..Len(paths) :
            /\ paths[i].path = PathUsersId
            /\ paths[i].item.get # Undefined
            /\ paths[i].item.get[1].operationId = Undefined
        /\ endpoints[k].operationId = IdGetUsersById

\* C8 (as claimed): no two endpoints of a parsed API carry the same
\* operationId, whatever the mix of declared and derived ids.
C8_OperationIdUnique ==
    apiPc = "done" =>
        \A k, l \in 1..Len(apiResult[1].endpoints) :
            k # l =>
              apiResult[1].endpoints[k].operationId
                # apiResult[1].endpoints[l].operationId

(***************************************************************************)
(* OpenAPIParser.resolveType on nested schemas                             *)
(***************************************************************************)
MaxDepth == 2

RefUser ==
    <<"#", "/", "c", "o", "m", "p", "o", "n", "e", "n", "t", "s", "/",
      "s", "c", "h", "e", "m", "a", "s", "/", "U", "s", "e", "r">>

\* $ref: absent, a components reference, a bare name, a reference ending in "/"
RefChoices ==
    {Undefined, Some(RefUser), Some(<<"U", "s", "e", "r">>), Some(<<"a", "/">>)}

SchemaTypeChoices == {Undefined, Some("array"), Some("object"), Some("string")}

\* OpenAPISchema nested through `items` at most n levels deep
RECURSIVE SchemasOfDepth(_)
SchemasOfDepth(n) ==
    [ref : RefChoices, type : SchemaTypeChoices,
     items : IF n = 0 THEN {Undefined}
             ELSE {Undefined} \cup {Some(x) : x \in SchemasOfDepth(n - 1)}]

ResolveIdle ==
    /\ rtSchema = StringSchema
    /\ rtPc = "idle"
    /\ rtResult = Undefined

ResolveStart ==
    /\ rtSchema \in SchemasOfDepth(MaxDepth)
    /\ rtPc = "call"
    /\ rtResult = Undefined

\* a call of resolveType that takes the $ref branch at its top level
ResolveTypeOfRef ==
    /\ rtPc = "call"
    /\ rtSchema.ref # Undefined
    /\ rtResult' = Some(OpenAPIParser_resolveType(rtSchema))
    /\ rtPc' = "done"
    /\ UNCHANGED rtSchema
    /\ UNCHANGED OtherThanResolve

\* a call of resolveType on a schema without $ref
ResolveTypeOfType ==
    /\ rtPc = "call"
    /\ rtSchema.ref = Undefined
    /\ rtResult' = Some(OpenAPIParser_resolveType(rtSchema))
    /\ rtPc' = "done"
    /\ UNCHANGED rtSchema
    /\ UNCHANGED OtherThanResolve

ResolveNext == ResolveTypeOfRef \/ ResolveTypeOfType

(***************************************************************************)
(* Claims about OpenAPIParser.resolveType (SpecResolve)                    *)
(***************************************************************************)
\* the part of a reference after its last "/" (all of it without a "/")
TrailingSegment(ref) ==
    LET slashes == {i \in 1..Len(ref) : ref[i] = "/"}
    IN  IF slashes = {} THEN ref
        ELSE SubSeq(ref, (CHOOSE i \in slashes : \A j \in slashes : j <= i) + 1,
                    Len(ref))

\* the schema whose own $ref or type decides the result: the first one, going
\* down through `items`, that has a $ref or is not an array with items
RECURSIVE DecidingSchema(_)
DecidingSchema(s) ==
    IF s.ref = Undefined /\ s.type = Some("array") /\ s.items # Undefined
    THEN DecidingSchema(s.items[1])
    ELSE s

\* C9: resolveType returns the trailing "/"-separated segment of $ref when
\* $ref is present, whatever `type` says; otherwise, for an array with items,
\* the resolved type of items; otherwise the literal type (an inline object
\* gives "object"), or "any" when type is absent.
C9_ResolveType ==
    rtPc = "done" =>
        LET d == DecidingSchema(rtSchema)
            r == rtResult[1]
        IN  /\ d.ref # Undefined
                => (r.named /\ r.name = TrailingSegment(d.ref[1]))
            /\ (d.ref = Undefined /\ d.type # Undefined)
                => (~r.named /\ r.type = d.type[1])
            /\ (d.ref = Undefined /\ d.type = Undefined)
                => (~r.named /\ r.type = "any")
            /\ rtSchema.ref # Undefined => d = rtSchema

\* C9 witness: an array of arrays whose innermost items carry both a $ref to
\* User and type "object": the result is the name User.
C9_Witness ==
    /\ rtPc = "done"
    /\ rtSchema.ref = Undefined
    /\ rtSchema.type = Some("array")
    /\ rtSchema.items # Undefined
    /\ rtSchema.items[1].ref = Undefined
    /\ rtSchema.items[1].type = Some("array")
    /\ rtSchema.items[1].items # Undefined
    /\ rtSchema.items[1].items[1].ref = Some(RefUser)
    /\ rtSchema.items[1].items[1].type = Some("object")
    /\ rtResult[1].named
    /\ rtResult[1].name = <<"U", "s", "e", "r">>

(***************************************************************************)
(* DesignTokensParser                                                      *)
(***************************************************************************)
\* A JavaScript number is [nan, neg, int, frac]: sign, integer part and the
\* decimal digits after the point (no trailing zero), or NaN.
Number(neg, int, frac) == [nan |-> FALSE, neg |-> neg, int |-> int, frac |-> frac]
NaN == [nan |-> TRUE, neg |-> FALSE, int |-> 0, frac |-> <<>>]
Zero == Number(FALSE, 0, <<>>)

\* a token entry's value: a bare string, a bare number, or {value, description?}
BareString(str) == [kind |-> "string", str |-> str]
BareNumber(n) == [kind |-> "number", num |-> n]
TokenObject(v, d) == [kind |-> "object", value |-> v, description |-> d]

DigitChars == <<"0", "1", "2", "3", "4", "5", "6", "7", "8", "9">>

DigitSet == {DigitChars[i] : i \in 1..Len(DigitChars)}

DigitValue(c) == (CHOOSE i \in 1..Len(DigitChars) : DigitChars[i] = c) - 1

LetterSet ==
    {LowerLetters[i] : i \in 1..Len(LowerLetters)}
        \cup {UpperLetters[i] : i \in 1..Len(UpperLetters)}

\* the length of the longest prefix of str made of characters of S
RECURSIVE PrefixLen(_, _)
PrefixLen(str, S) ==
    IF str = <<>> \/ Head(str) \notin S THEN 0 ELSE 1 + PrefixLen(Tail(str), S)

Drop(str, n) == SubSeq(str, n + 1, Len(str))
Take(str, n) == SubSeq(str, 1, n)

\* the value of a run of decimal digits
RECURSIVE DigitsValue(_)
DigitsValue(ds) ==
    IF ds = <<>> THEN 0
    ELSE 10 * DigitsValue(Take(ds, Len(ds) - 1)) + DigitValue(ds[Len(ds)])

\* decimal digits without trailing zeros
RECURSIVE StripZeros(_)
StripZeros(ds) ==
    IF ds # <<>> /\ ds[Len(ds)] = "0" THEN StripZeros(Take(ds, Len(ds) - 1)) ELSE ds

\* parseFloat(str): leading blanks, a sign, digits, a point and digits; what
\* follows is ignored; NaN without a digit. (No drawn string continues the
\* digits with an exponent.)
parseFloat(str) ==
    LET s1 == Drop(str, PrefixLen(str, {" "}))
        signed == s1 # <<>> /\ s1[1] \in {"-", "+"}
        neg == s1 # <<>> /\ s1[1] = "-"
        s2 == IF signed THEN Tail(s1) ELSE s1
        nInt == PrefixLen(s2, DigitSet)
        s3 == Drop(s2, nInt)
        nFrac == IF s3 # <<>> /\ s3[1] = "." THEN PrefixLen(Tail(s3), DigitSet) ELSE 0
        frac == IF nFrac = 0 THEN <<>> ELSE SubSeq(s3, 2, nFrac + 1)
    IN  IF nInt + nFrac = 0 THEN NaN
        ELSE Number(neg, DigitsValue(Take(s2, nInt)), StripZeros(frac))

\* `x || 0` for a number: NaN, 0 and -0 are falsy
NumberOrZero(n) == IF n.nan \/ (n.int = 0 /\ n.frac = <<>>) THEN Zero ELSE n

\* the character classes of /^([\d.]+)([a-z%]*)$/i
NumericChars == DigitSet \cup {"."}
UnitChars == LetterSet \cup {"%"}

Px == <<"p", "x">>

\* the outcome of parseValue: a TypeError, or { numValue, unit }
Threw == [threw |-> TRUE, numValue |-> Zero, unit |-> <<>>]
Returned(n, u) == [threw |-> FALSE, numValue |-> n, unit |-> u]

\* parseValue(value); value.match(/^([\d.]+)([a-z%]*)$/i) is a TypeError when
\* value is an object, which has no `match`
parseValue(value) ==
    IF value.kind = "number" THEN Returned(value.num, Px)
    ELSE IF value.kind # "string" THEN Threw
    ELSE LET n1 == PrefixLen(value.str, NumericChars)
             rest == Drop(value.str, n1)
             match == n1 >= 1 /\ \A i \in 1..Len(rest) : rest[i] \in UnitChars
         IN  IF match
             THEN Returned(parseFloat(Take(value.str, n1)),
                           IF rest # <<>> THEN rest ELSE Px)
             ELSE Returned(NumberOrZero(parseFloat(value.str)), Px)

\* str.replace(/[-_](.)/g, (_, char) => char.toUpperCase())
RECURSIVE ReplaceSeparators(_)
ReplaceSeparators(str) ==
    IF str = <<>> THEN <<>>
    ELSE IF Head(str) \in {"-", "_"} /\ Len(str) >= 2
    THEN <<UpperChar(str[2])>> \o ReplaceSeparators(Drop(str, 2))
    ELSE <<Head(str)>> \o ReplaceSeparators(Tail(str))

toCamelCase(str) ==
    LET r == ReplaceSeparators(str)
    IN  IF r = <<>> THEN <<>> ELSE <<LowerChar(r[1])>> \o Tail(r)

\* the outcome of a category parser: a TypeError, or its list
ThrewList == [threw |-> TRUE, list |-> <<>>]
ReturnedList(l) == [threw |-> FALSE, list |-> l]

\* Object.entries(group).map(([name, value]) => { parseValue(value) ... })
MapParseValue(entries) ==
    IF \E i \in 1..Len(entries) : parseValue(entries[i].value).threw
    THEN ThrewList
    ELSE ReturnedList([i \in 1..Len(entries) |->
            [name |-> toCamelCase(entries[i].name),
             value |-> parseValue(entries[i].value).numValue,
             unit |-> parseValue(entries[i].value).unit]])

\* the loop of parseColors / parseShadows: a string is taken as it is, of
\* anything else .value and .description are read
MapStringOrObject(entries) ==
    ReturnedList([i \in 1..Len(entries) |->
        IF entries[i].value.kind = "string"
        THEN [name |-> toCamelCase(entries[i].name),
              value |-> entries[i].value,
              description |-> Undefined]
        ELSE [name |-> toCamelCase(entries[i].name),
              value |-> entries[i].value.value,
              description |-> entries[i].value.description]])

parseColors(colors) == MapStringOrObject(colors)

\* as parseColors, with `fallback` (not modelled) in place of `description`
parseFontFamilies(fontFamilies) ==
    ReturnedList([i \in 1..Len(fontFamilies) |->
        [name |-> toCamelCase(fontFamilies[i].name),
         value |-> IF fontFamilies[i].value.kind = "string"
                   THEN fontFamilies[i].value
                   ELSE fontFamilies[i].value.value]])

parseFontSizes(fontSizes) == MapParseValue(fontSizes)

\* the value is copied, whatever it is
parseFontWeights(fontWeights) ==
    ReturnedList([i \in 1..Len(fontWeights) |->
        [name |-> toCamelCase(fontWeights[i].name),
         value |-> fontWeights[i].value]])

parseLineHeights(lineHeights) == MapParseValue(lineHeights)

parseLetterSpacing(letterSpacing) == MapParseValue(letterSpacing)

\* a string or number goes to parseValue, of anything else its .value does
parseSpacing(spacing) ==
    MapParseValue([i \in 1..Len(spacing) |->
        [name |-> spacing[i].name,
         value |-> IF spacing[i].value.kind \in {"string", "number"}
                   THEN spacing[i].value
                   ELSE spacing[i].value.value]])

parseBorderRadius(borderRadius) == MapParseValue(borderRadius)

parseShadows(shadows) == MapStringOrObject(shadows)

parseBreakpoints(breakpoints) == MapParseValue(breakpoints)

TypographyGroups ==
    <<"fontFamilies", "fontSizes", "fontWeights", "lineHeights", "letterSpacing">>

\* parseTypography: the five groups, each `typography.<group> || {}`
parseTypography(typography) ==
    LET fontFamilies == parseFontFamilies(OrElse(typography.fontFamilies, <<>>))
        fontSizes == parseFontSizes(OrElse(typography.fontSizes, <<>>))
        fontWeights == parseFontWeights(OrElse(typography.fontWeights, <<>>))
        lineHeights == parseLineHeights(OrElse(typography.lineHeights, <<>>))
        letterSpacing == parseLetterSpacing(OrElse(typography.letterSpacing, <<>>))
    IN  [threw |-> fontSizes.threw \/ lineHeights.threw \/ letterSpacing.threw,
         fontFamilies |-> fontFamilies.list,
         fontSizes |-> fontSizes.list,
         fontWeights |-> fontWeights.list,
         lineHeights |-> lineHeights.list,
         letterSpacing |-> letterSpacing.list]

\* ---- the input documents the model draws from ----
MaxValueLen == 3
MaxTokens == 2

ValueAlphabet == {"8", ".", "-", "p"}

Value8px == <<"8", "p", "x">>

\* token strings: every string over the alphabet up to the bound, and a few
\* usual ones
StringValues ==
    SeqsUpTo(ValueAlphabet, MaxValueLen)
        \cup {Value8px, <<"5", "0", "%">>, <<"1", ".", "5", "r", "e", "m">>}

\* token numbers: 0, 16, 1.5, -4
NumberValues ==
    {Zero, Number(FALSE, 16, <<>>), Number(FALSE, 1, <<"5">>), Number(TRUE, 4, <<>>)}

\* the ten groups of entries: four categories and typography's five groups
Slots ==
    {"colors", "fontFamilies", "fontSizes", "fontWeights", "lineHeights",
     "letterSpacing", "spacing", "borderRadius", "shadows", "breakpoints"}

\* the groups whose values are text, not a size
TextSlots == {"colors", "fontFamilies", "shadows"}

IsTypographyGroup(slot) ==
    \E i \in 1..Len(TypographyGroups) : TypographyGroups[i] = slot

\* the values a group's entries stand for
UnderlyingValues(slot) ==
    {BareString(v) : v \in StringValues}
        \cup (IF slot \in TextSlots THEN {} ELSE {BareNumber(n) : n \in NumberValues})

\* a value given bare, or as an object with or without a description
Forms(v) == {v, TokenObject(v, Undefined), TokenObject(v, Some("note"))}

TokenNames == {<<"s", "m">>, <<"x", "-", "l">>, <<"T", "_", "a">>}

\* DesignTokens with the entries of one group given and everything else absent
DocWith(slot, entries) ==
    [colors |-> IF slot = "colors" THEN Some(entries) ELSE Undefined,
     typography |->
        IF IsTypographyGroup(slot)
        THEN Some([fontFamilies |-> IF slot = "fontFamilies" THEN Some(entries)
                                    ELSE Undefined,
                   fontSizes |-> IF slot = "fontSizes" THEN Some(entries) ELSE Undefined,
                   fontWeights |-> IF slot = "fontWeights" THEN Some(entries)
                                   ELSE Undefined,
                   lineHeights |-> IF slot = "lineHeights" THEN Some(entries)
                                   ELSE Undefined,
                   letterSpacing |-> IF slot = "letterSpacing" THEN Some(entries)
                                     ELSE Undefined])
        ELSE Undefined,
     spacing |-> IF slot = "spacing" THEN Some(entries) ELSE Undefined,
     borderRadius |-> IF slot = "borderRadius" THEN Some(entries) ELSE Undefined,
     shadows |-> IF slot = "shadows" THEN Some(entries) ELSE Undefined,
     breakpoints |-> IF slot = "breakpoints" THEN Some(entries) ELSE Undefined]

\* documents with one entry, in any group, of any value, in either form
SingleTokenDocs ==
    UNION {{DocWith(slot, <<[name |-> <<"s", "m">>, value |-> f]>>) :
                f \in UNION {Forms(v) : v \in UnderlyingValues(slot)}} :
           slot \in Slots}

\* spacing documents with several entries, e.g. {small: "8px", medium: 16}
SpacingDocs ==
    {DocWith("spacing", e) :
        e \in {l \in SeqsUpTo([name : TokenNames,
                               value : {BareString(Value8px),
                                        BareNumber(Number(FALSE, 16, <<>>)),
                                        TokenObject(BareString(Value8px),
                                                    Some("note"))}],
                              MaxTokens) :
                 \A i, j \in 1..Len(l) : i # j => l[i].name # l[j].name}}

\* String(n) of a natural number: its decimal digits
RECURSIVE NatToString(_)
NatToString(n) ==
    IF n < 10 THEN <<DigitChars[n + 1]>>
    ELSE NatToString(n \div 10) \o <<DigitChars[(n % 10) + 1]>>

\* `${value}` of a number: "NaN", or sign, integer digits, and the decimal
\* digits after a point when there are any (-0 is written "0")
NumberToString(n) ==
    IF n.nan THEN <<"N", "a", "N">>
    ELSE (IF n.neg /\ (n.int # 0 \/ n.frac # <<>>) THEN <<"-">> ELSE <<>>)
            \o NatToString(n.int)
            \o (IF n.frac = <<>> THEN <<>> ELSE <<".">> \o n.frac)

\* `${value}${unit}`, as the theme generators write a size
FormatValue(n, unit) == NumberToString(n) \o unit

\* units for written sizes: px, rem, %
UnitChoices == {Px, <<"r", "e", "m">>, <<"%">>}

\* spacing documents whose one entry is a number written with a unit
FormattedDocs ==
    {DocWith("spacing", <<[name |-> <<"s", "m">>,
                           value |-> BareString(FormatValue(n, u))]>>) :
        n \in NumberValues, u \in UnitChoices}

\* ---- DesignTokensParser.parse, step by step ----
NoTypography ==
    [fontFamilies |-> Undefined, fontSizes |-> Undefined, fontWeights |-> Undefined,
     lineHeights |-> Undefined, letterSpacing |-> Undefined]

EmptyTheme ==
    [colors |-> <<>>,
     typography |-> [fontFamilies |-> <<>>, fontSizes |-> <<>>, fontWeights |-> <<>>,
                     lineHeights |-> <<>>, letterSpacing |-> <<>>],
     spacing |-> <<>>, borderRadius |-> <<>>, shadows |-> <<>>, breakpoints |-> <<>>]

TokensIdle ==
    /\ tokens = DocWith("none", <<>>)
    /\ tokPc = "idle"
    /\ theme = EmptyTheme
    /\ themeResult = Undefined

TokensStart ==
    /\ tokens \in SingleTokenDocs \cup SpacingDocs \cup FormattedDocs
                    \cup {DocWith("none", <<>>)}
    /\ tokPc = "colors"
    /\ theme = EmptyTheme
    /\ themeResult = Undefined

\* colors: this.parseColors(tokens.colors || {})
ParseColors ==
    /\ tokPc = "colors"
    /\ theme' = [theme EXCEPT !.colors = parseColors(OrElse(tokens.colors, <<>>)).list]
    /\ tokPc' = "typography"
    /\ UNCHANGED <<tokens, themeResult>>
    /\ UNCHANGED OtherThanTokens

\* typography: this.parseTypography(tokens.typography || {})
ParseTypography ==
    /\ tokPc = "typography"
    /\ LET r == parseTypography(OrElse(tokens.typography, NoTypography))
       IN  IF r.threw
           THEN tokPc' = "error" /\ UNCHANGED theme
           ELSE /\ tokPc' = "spacing"
                /\ theme' = [theme EXCEPT !.typography =
                                [fontFamilies |-> r.fontFamilies,
                                 fontSizes |-> r.fontSizes,
                                 fontWeights |-> r.fontWeights,
                                 lineHeights |-> r.lineHeights,
                                 letterSpacing |-> r.letterSpacing]]
    /\ UNCHANGED <<tokens, themeResult>>
    /\ UNCHANGED OtherThanTokens

\* spacing: this.parseSpacing(tokens.spacing || {})
ParseSpacing ==
    /\ tokPc = "spacing"
    /\ LET r == parseSpacing(OrElse(tokens.spacing, <<>>))
       IN  IF r.threw
           THEN tokPc' = "error" /\ UNCHANGED theme
           ELSE tokPc' = "borderRadius" /\ theme' = [theme EXCEPT !.spacing = r.list]
    /\ UNCHANGED <<tokens, themeResult>>
    /\ UNCHANGED OtherThanTokens

\* borderRadius: this.parseBorderRadius(tokens.borderRadius || {})
ParseBorderRadius ==
    /\ tokPc = "borderRadius"
    /\ LET r == parseBorderRadius(OrElse(tokens.borderRadius, <<>>))
       IN  IF r.threw
           THEN tokPc' = "error" /\ UNCHANGED theme
           ELSE tokPc' = "shadows" /\ theme' = [theme EXCEPT !.borderRadius = r.list]
    /\ UNCHANGED <<tokens, themeResult>>
    /\ UNCHANGED OtherThanTokens

\* shadows: this.parseShadows(tokens.shadows || {})
ParseShadows ==
    /\ tokPc = "shadows"
    /\ theme' = [theme EXCEPT !.shadows = parseShadows(OrElse(tokens.shadows, <<>>)).list]
    /\ tokPc' = "breakpoints"
    /\ UNCHANGED <<tokens, themeResult>>
    /\ UNCHANGED OtherThanTokens

\* breakpoints: this.parseBreakpoints(tokens.breakpoints || {})
ParseBreakpoints ==
    /\ tokPc = "breakpoints"
    /\ LET r == parseBreakpoints(OrElse(tokens.breakpoints, <<>>))
       IN  IF r.threw
           THEN tokPc' = "error" /\ UNCHANGED theme
           ELSE tokPc' = "return" /\ theme' = [theme EXCEPT !.breakpoints = r.list]
    /\ UNCHANGED <<tokens, themeResult>>
    /\ UNCHANGED OtherThanTokens

\* parse: `return { name, colors, typography, ... }`
ParseTokensReturn ==
    /\ tokPc = "return"
    /\ themeResult' = Some(theme)
    /\ tokPc' = "done"
    /\ UNCHANGED <<tokens, theme>>
    /\ UNCHANGED OtherThanTokens

TokensNext ==
    \/ ParseColors
    \/ ParseTypography
    \/ ParseSpacing
    \/ ParseBorderRadius
    \/ ParseShadows
    \/ ParseBreakpoints
    \/ ParseTokensReturn

(***************************************************************************)
(* Claims about DesignTokensParser (SpecTokens)                            *)
(***************************************************************************)
\* the entries the document gives for a group (none when it is absent)
EntriesOf(slot) ==
    IF IsTypographyGroup(slot)
    THEN IF tokens.typography = Undefined \/ tokens.typography[1][slot] = Undefined
         THEN <<>>
         ELSE tokens.typography[1][slot][1]
    ELSE IF tokens[slot] = Undefined THEN <<>> ELSE tokens[slot][1]

\* the list the returned theme has for a group
ParsedOf(slot) ==
    IF IsTypographyGroup(slot)
    THEN themeResult[1].typography[slot]
    ELSE themeResult[1][slot]

\* the value an entry stands for, in whichever form it is given
Underlying(v) == IF v.kind = "object" THEN v.value ELSE v

\* C10 (as claimed): in each category an entry given as a bare value and one
\* given as {value, description?} are both parsed without error, and the
\* object form yields the name, value and unit of the bare value it wraps.
C10_BothFormsAccepted ==
    /\ tokPc # "error"
    /\ tokPc = "done" =>
         \A slot \in Slots :
           /\ Len(ParsedOf(slot)) = Len(EntriesOf(slot))
           /\ \A i \in 1..Len(EntriesOf(slot)) :
                LET given == EntriesOf(slot)[i]
                    out == ParsedOf(slot)[i]
                IN  /\ out.name = toCamelCase(given.name)
                    /\ IF slot \in TextSlots \cup {"fontWeights"}
                       THEN out.value = Underlying(given.value)
                       ELSE /\ out.value = parseValue(Underlying(given.value)).numValue
                            /\ out.unit = parseValue(Underlying(given.value)).unit

\* the string has the shape <digits and points><letters or %>
IsNumberWithUnit(str) ==
    LET n1 == PrefixLen(str, NumericChars)
    IN  n1 >= 1 /\ \A i \in n1 + 1..Len(str) : str[i] \in UnitChars

\* C11 (as claimed): parsing a size never throws; a bare number n gives
\* (n, "px"); a string that starts with a number gives that number, and, when
\* it is a number followed by letters or %, those as the unit ("px" when there
\* are none); a string that does not start with a number gives exactly
\* (0, "px").
C11_ParseValueTotal ==
    /\ tokPc = "error" => EntriesOf("spacing") = <<>>
    /\ tokPc = "done" =>
         /\ Len(ParsedOf("spacing")) = Len(EntriesOf("spacing"))
         /\ \A i \in 1..Len(EntriesOf("spacing")) :
              LET given == Underlying(EntriesOf("spacing")[i].value)
                  out == ParsedOf("spacing")[i]
              IN  IF given.kind = "number"
                  THEN out.value = given.num /\ out.unit = Px
                  ELSE IF parseFloat(given.str).nan
                  THEN out.value = Zero /\ out.unit = Px
                  ELSE /\ ~out.value.nan
                       /\ out.value.int = parseFloat(given.str).int
                       /\ out.value.frac = parseFloat(given.str).frac
                       /\ IsNumberWithUnit(given.str) =>
                            LET rest == Drop(given.str,
                                             PrefixLen(given.str, NumericChars))
                            IN  out.unit = IF rest = <<>> THEN Px ELSE rest

\* C12 (as claimed): a number n written immediately followed by a unit u of
\* letters or % parses back to (n, u), and a bare number n parses to (n, "px"),
\* for negative n as well.
C12_RoundTrip ==
    tokPc = "done" =>
      \A i \in 1..Len(EntriesOf("spacing")) :
        LET given == EntriesOf("spacing")[i].value
            out == ParsedOf("spacing")[i]
        IN  /\ given.kind = "number" => out.value = given.num /\ out.unit = Px
            /\ \A n \in NumberValues, u \in UnitChoices :
                 given = BareString(FormatValue(n, u)) =>
                    out.value = n /\ out.unit = u

(***************************************************************************)
(* ComponentSpecParser                                                     *)
(***************************************************************************)
\* `opt || dflt` for an optional string: undefined and "" are falsy
StringOrElse(opt, dflt) == IF opt = Undefined \/ opt[1] = "" THEN dflt ELSE opt[1]

\* `opt || false` for an optional boolean
BoolOrFalse(opt) == opt # Undefined /\ opt[1]

\* `opt ?? dflt`: only undefined (and null) give the default
Coalesce(opt, dflt) == IF opt = Undefined THEN dflt ELSE opt[1]

\* String.prototype.startsWith / endsWith
HasPrefix(str, prefix) ==
    Len(str) >= Len(prefix) /\ SubSeq(str, 1, Len(prefix)) = prefix
HasSuffix(str, suffix) ==
    Len(str) >= Len(suffix)
        /\ SubSeq(str, Len(str) - Len(suffix) + 1, Len(str)) = suffix

\* type.slice(from, -fromEnd)
SliceBetween(str, from, fromEnd) == SubSeq(str, from + 1, Len(str) - fromEnd)

BindingOpen == <<"B", "i", "n", "d", "i", "n", "g", "<">>

\* a value that is not a string: a function found on Object.prototype
FunctionValue(name) == [kind |-> "function", name |-> name]

\* the keys of typeMap; every one maps to itself
typeMap ==
    {<<"S", "t", "r", "i", "n", "g">>, <<"I", "n", "t">>, <<"D", "o", "u", "b", "l", "e">>, <<"B", "o", "o", "l">>, <<"C", "o", "l", "o", "r">>, <<"F", "o", "n", "t">>, <<"I", "m", "a", "g", "e">>,
     <<"V", "o", "i", "d">>, <<"A", "n", "y">>}

\* typeMap is an object literal, so typeMap[type] also finds what
\* Object.prototype has under that key
ObjectPrototype ==
    {[key |-> <<"c", "o", "n", "s", "t", "r", "u", "c", "t", "o", "r">>, value |-> FunctionValue(<<"O", "b", "j", "e", "c", "t">>)],
     [key |-> <<"t", "o", "S", "t", "r", "i", "n", "g">>, value |-> FunctionValue(<<"t", "o", "S", "t", "r", "i", "n", "g">>)]}

\* typeMap[type]
TypeMapLookup(type) ==
    IF type \in typeMap THEN Some(BareString(type))
    ELSE IF \E e \in ObjectPrototype : e.key = type
    THEN Some((CHOOSE e \in ObjectPrototype : e.key = type).value)
    ELSE Undefined

\* `${v}`: a string as it is, a built-in function as its source text
NativeCode == <<"(", ")", " ", "{", " ", "[", "n", "a", "t", "i", "v", "e", " ", "c", "o", "d", "e", "]", " ", "}">>

TemplateText(v) ==
    IF v.kind = "string" THEN v.str
    ELSE <<"f", "u", "n", "c", "t", "i", "o", "n", " ">> \o v.name \o NativeCode

\* mapToSwiftType(type): Binding<..> unwrapped, then the [] suffix, then the ?
\* suffix, then `typeMap[type] || type`
RECURSIVE mapToSwiftType(_)
mapToSwiftType(type) ==
    IF HasPrefix(type, BindingOpen) /\ HasSuffix(type, <<">">>)
    THEN mapToSwiftType(SliceBetween(type, 8, 1))
    ELSE IF HasSuffix(type, <<"[", "]">>)
    THEN BareString(<<"[">> \o TemplateText(mapToSwiftType(SliceBetween(type, 0, 2)))
                        \o <<"]">>)
    ELSE IF HasSuffix(type, <<"?">>)
    THEN BareString(TemplateText(mapToSwiftType(SliceBetween(type, 0, 1))) \o <<"?">>)
    ELSE IF TypeMapLookup(type) # Undefined THEN TypeMapLookup(type)[1]
    ELSE BareString(type)

\* parseProperties(properties)
ComponentSpecParser_parseProperties(properties) ==
    [i \in 1..Len(properties) |->
        [name |-> properties[i].name,
         type |-> properties[i].type,
         swiftType |-> mapToSwiftType(properties[i].type),
         required |-> properties[i].required,
         defaultValue |-> properties[i].defaultValue,
         description |-> StringOrElse(properties[i].description, properties[i].name),
         isBinding |-> HasPrefix(properties[i].type, BindingOpen)]]

defaultPadding == [top |-> 16, bottom |-> 16, leading |-> 16, trailing |-> 16]

\* a ComponentStyle with every key left out
NoStyle ==
    [backgroundColor |-> Undefined, foregroundColor |-> Undefined,
     borderColor |-> Undefined, borderWidth |-> Undefined,
     cornerRadius |-> Undefined, padding |-> Undefined, font |-> Undefined,
     fontWeight |-> Undefined, minHeight |-> Undefined, maxWidth |-> Undefined]

\* ComponentStyle.padding is a number or an object of optional sides
PaddingNumber(n) == [kind |-> "number", num |-> n]
PaddingSides(t, b, l, r) ==
    [kind |-> "object", top |-> t, bottom |-> b, leading |-> l, trailing |-> r]

\* a slip in parseStyle: `||` in place of `??`, and a truthiness test of the
\* number
parseStyle_zeroAsAbsent(style) ==
    IF style = Undefined THEN [NoStyle EXCEPT !.padding = defaultPadding]
    ELSE LET given == style[1].padding
             or16(opt) == IF opt = Undefined \/ opt[1] = 0 THEN 16 ELSE opt[1]
             padding ==
                IF given # Undefined /\ given[1].kind = "number" /\ given[1].num # 0
                THEN [top |-> given[1].num, bottom |-> given[1].num,
                      leading |-> given[1].num, trailing |-> given[1].num]
                ELSE IF given # Undefined /\ given[1].kind = "object"
                THEN [top |-> or16(given[1].top),
                      bottom |-> or16(given[1].bottom),
                      leading |-> or16(given[1].leading),
                      trailing |-> or16(given[1].trailing)]
                ELSE defaultPadding
         IN  [style[1] EXCEPT !.padding = padding]

\* parseStyle(style): padding made four-sided, the other fields copied
parseStyle(style) ==
    IF style = Undefined THEN [NoStyle EXCEPT !.padding = defaultPadding]
    ELSE LET given == style[1].padding
             padding ==
                IF given # Undefined /\ given[1].kind = "number"
                THEN [top |-> given[1].num, bottom |-> given[1].num,
                      leading |-> given[1].num, trailing |-> given[1].num]
                ELSE IF given # Undefined
                THEN [top |-> Coalesce(given[1].top, 16),
                      bottom |-> Coalesce(given[1].bottom, 16),
                      leading |-> Coalesce(given[1].leading, 16),
                      trailing |-> Coalesce(given[1].trailing, 16)]
                ELSE defaultPadding
         IN  [style[1] EXCEPT !.padding = padding]

\* parseStates(states): a Map, here its entries in insertion order
parseStates(states) ==
    IF states = Undefined THEN <<>>
    ELSE [i \in 1..Len(states[1]) |->
            [key |-> states[1][i].name,
             value |-> [name |-> states[1][i].name,
                        showSpinner |-> BoolOrFalse(states[1][i].state.showSpinner),
                        disableInteraction |->
                            BoolOrFalse(states[1][i].state.disableInteraction),
                        opacity |-> states[1][i].state.opacity]]]

\* a slip in parseActions: isAsync set for every action that has a return type
parseActions_asyncByReturnType(actions) ==
    [i \in 1..Len(actions) |->
        [name |-> actions[i].name,
         isAsync |-> actions[i].returnType # Undefined,
         parameters |-> [j \in 1..Len(actions[i].parameters) |->
            [name |-> actions[i].parameters[j].name,
             type |-> actions[i].parameters[j].type,
             swiftType |-> mapToSwiftType(actions[i].parameters[j].type),
             label |-> actions[i].parameters[j].label]],
         returnType |-> StringOrElse(actions[i].returnType, "Void")]]

\* parseActions(actions)
parseActions(actions) ==
    [i \in 1..Len(actions) |->
        [name |-> actions[i].name,
         isAsync |-> actions[i].type = "async",
         parameters |-> [j \in 1..Len(actions[i].parameters) |->
            [name |-> actions[i].parameters[j].name,
             type |-> actions[i].parameters[j].type,
             swiftType |-> mapToSwiftType(actions[i].parameters[j].type),
             label |-> actions[i].parameters[j].label]],
         returnType |-> StringOrElse(actions[i].returnType, "Void")]]

\* parseSlots(slots)
parseSlots(slots) ==
    [i \in 1..Len(slots) |->
        [name |-> slots[i].name,
         required |-> slots[i].required,
         description |-> StringOrElse(slots[i].description, slots[i].name)]]

\* ---- the component specs the model draws from ----
MaxActions == 2
MaxWrap == 2

\* a spec with no property and every optional part absent
BaseSpec ==
    [component |-> "IconButton", category |-> "Buttons", description |-> Undefined,
     properties |-> <<>>, style |-> Undefined, states |-> Undefined,
     actions |-> Undefined, slots |-> Undefined]

TitleParameter == [name |-> "title", type |-> <<"S", "t", "r", "i", "n", "g">>, label |-> Undefined]

ActionChoices ==
    {[name |-> "onTap", type |-> "sync", parameters |-> <<>>, returnType |-> Undefined],
     [name |-> "onLoad", type |-> "async", parameters |-> <<>>, returnType |-> Undefined],
     [name |-> "fetch", type |-> "async", parameters |-> <<TitleParameter>>,
      returnType |-> Some("Bool")],
     [name |-> "count", type |-> "sync", parameters |-> <<TitleParameter>>,
      returnType |-> Some("Int")]}

NoState == [showSpinner |-> Undefined, disableInteraction |-> Undefined,
            opacity |-> Undefined]

StateEntry(name, state) == [name |-> name, state |-> state]

StatesChoices ==
    {Undefined,
     Some(<<>>),
     Some(<<StateEntry("loading", [NoState EXCEPT !.showSpinner = Some(TRUE)])>>),
     Some(<<StateEntry("pressed", [NoState EXCEPT !.opacity = Some(1)])>>),
     Some(<<StateEntry("pressed", NoState), StateEntry("loading", NoState)>>),
     Some(<<StateEntry("disabled", [NoState EXCEPT !.disableInteraction = Some(TRUE)]),
            StateEntry("pressed", [NoState EXCEPT !.showSpinner = Some(FALSE)])>>)}

\* specs that differ in their actions and states
ActionDocs ==
    {[BaseSpec EXCEPT !.actions = a, !.states = s] :
        a \in {Undefined} \cup {Some(l) : l \in SeqsUpTo(ActionChoices, MaxActions)},
        s \in StatesChoices}

SideChoices == {Undefined, Some(0), Some(4)}

PaddingChoices ==
    {Undefined, Some(PaddingNumber(0)), Some(PaddingNumber(8))}
        \cup {Some(PaddingSides(t, b, l, r)) :
                t \in SideChoices, b \in SideChoices,
                l \in SideChoices, r \in SideChoices}

\* specs that differ in their style
StyleDocs ==
    {[BaseSpec EXCEPT !.style = Some([NoStyle EXCEPT !.padding = p,
                                                     !.backgroundColor = c])] :
        p \in PaddingChoices, c \in {Undefined, Some("primary")}}

\* type names: a scalar of typeMap, a model name, and a name that
\* Object.prototype has too
TypeNames == {<<"S", "t", "r", "i", "n", "g">>, <<"U", "s", "e", "r">>, <<"c", "o", "n", "s", "t", "r", "u", "c", "t", "o", "r">>}

\* a type expression: a name under at most d wrappers
RECURSIVE TypeTrees(_)
TypeTrees(d) ==
    IF d = 0 THEN {[wrap |-> "name", name |-> n] : n \in TypeNames}
    ELSE TypeTrees(d - 1)
            \cup {[wrap |-> w, of |-> t] :
                    w \in {"binding", "array", "optional"}, t \in TypeTrees(d - 1)}

\* a type expression as the spec document spells it
RECURSIVE Spell(_)
Spell(t) ==
    IF t.wrap = "name" THEN t.name
    ELSE IF t.wrap = "binding" THEN BindingOpen \o Spell(t.of) \o <<">">>
    ELSE IF t.wrap = "array" THEN Spell(t.of) \o <<"[", "]">>
    ELSE Spell(t.of) \o <<"?">>

Property(name, type, required, defaultValue, description) ==
    [name |-> name, type |-> type, required |-> required,
     defaultValue |-> defaultValue, description |-> description]

\* specs with one property, of any type expression
TypeDocs ==
    {[BaseSpec EXCEPT !.properties =
            <<Property("value", Spell(t), Some(TRUE), Undefined, Undefined)>>] :
        t \in TypeTrees(MaxWrap)}

\* specs whose property (and slot) leaves `required`, `defaultValue` or
\* `description` unset, or sets them
DefaultsDocs ==
    {[BaseSpec EXCEPT
        !.description = d,
        !.properties = <<Property("title", <<"S", "t", "r", "i", "n", "g">>, r, v, d)>>,
        !.slots = IF r = Undefined THEN Undefined
                  ELSE Some(<<[name |-> "icon", required |-> r[1],
                               description |-> d]>>)] :
        r \in {Undefined, Some(TRUE), Some(FALSE)},
        v \in {Undefined, Some("OK")},
        d \in {Undefined, Some(""), Some("The title")}}

\* ---- ComponentSpecParser.parse, step by step ----
\* specs that take the generator through its branches: actions or none, a
\* loading state, bindings, defaults, a styled component, a form
StyledButton ==
    [NoStyle EXCEPT !.backgroundColor = Some("blue"), !.foregroundColor = Some("white"),
                    !.borderColor = Some("gray"), !.borderWidth = Some(1),
                    !.cornerRadius = Some(8), !.padding = Some(PaddingNumber(12)),
                    !.font = Some("headline"), !.fontWeight = Some("bold"),
                    !.minHeight = Some(44), !.maxWidth = Some("infinity")]

GeneratorSpecs ==
    {[BaseSpec EXCEPT
        !.description = Some("A button with an icon"),
        !.properties =
            <<Property("icon", <<"S", "t", "r", "i", "n", "g">>, Some(TRUE), Undefined,
                       Some("SF Symbol name")),
              Property("isLoading", <<"B", "o", "o", "l">>, Some(FALSE), Some("false"),
                       Undefined)>>,
        !.style = Some(StyledButton),
        !.states = Some(<<StateEntry("loading",
                                     [NoState EXCEPT !.showSpinner = Some(TRUE)])>>),
        !.actions = Some(<<[name |-> "action", type |-> "async", parameters |-> <<>>,
                            returnType |-> Undefined]>>)],
     [BaseSpec EXCEPT
        !.component = "SearchField", !.category = "forms",
        !.properties =
            <<Property("text", BindingOpen \o <<"S", "t", "r", "i", "n", "g">> \o <<">">>,
                       Some(TRUE), Undefined, Some("The query")),
              Property("isOn", BindingOpen \o <<"B", "o", "o", "l">> \o <<">">>,
                       Some(TRUE), Undefined, Undefined),
              Property("options", <<"S", "t", "r", "i", "n", "g", "[", "]">>,
                       Some(TRUE), Undefined, Undefined),
              Property("label", <<"S", "t", "r", "i", "n", "g">>, Some(FALSE),
                       Some("Search"), Undefined)>>],
     [BaseSpec EXCEPT
        !.component = "Banner",
        !.properties =
            <<Property("message", <<"S", "t", "r", "i", "n", "g">>, Some(TRUE), Undefined,
                       Undefined),
              Property("tint", <<"C", "o", "l", "o", "r">>, Some(FALSE), Some("red"),
                       Undefined),
              Property("count", <<"I", "n", "t">>, Some(FALSE), Some("0"), Undefined)>>,
        !.states = Some(<<StateEntry("loading", NoState)>>),
        !.actions = Some(<<[name |-> "onTap", type |-> "sync", parameters |-> <<>>,
                            returnType |-> Undefined]>>)]}

EmptyComponent ==
    [properties |-> <<>>, style |-> parseStyle(Undefined), states |-> <<>>,
     actions |-> <<>>, slots |-> <<>>,
     hasAsyncAction |-> FALSE, hasLoadingState |-> FALSE]

ComponentIdle ==
    /\ compSpec = BaseSpec
    /\ compPc = "idle"
    /\ component = EmptyComponent
    /\ compResult = Undefined
    /\ compText = <<>>

ComponentStart ==
    /\ compSpec \in ActionDocs \cup StyleDocs \cup TypeDocs \cup DefaultsDocs
                        \cup GeneratorSpecs
    /\ compPc = "actions"
    /\ component = EmptyComponent
    /\ compResult = Undefined
    /\ compText = <<>>

\* spec.states?.loading !== undefined
HasLoadingKey(states) ==
    states # Undefined /\ \E i \in 1..Len(states[1]) : states[1][i].name = "loading"

\* const actions, hasAsyncAction, hasLoadingState
ParseActions ==
    /\ compPc = "actions"
    /\ LET actions == parseActions(OrElse(compSpec.actions, <<>>))
       IN  component' =
             [component EXCEPT
                !.actions = actions,
                !.hasAsyncAction = \E i \in 1..Len(actions) : actions[i].isAsync,
                !.hasLoadingState = HasLoadingKey(compSpec.states)]
    /\ compPc' = "properties"
    /\ UNCHANGED <<compSpec, compResult, compText>>
    /\ UNCHANGED OtherThanComponent

\* properties: this.parseProperties(spec.properties)
ParseComponentProperties ==
    /\ compPc = "properties"
    /\ component' = [component EXCEPT !.properties =
                        ComponentSpecParser_parseProperties(compSpec.properties)]
    /\ compPc' = "style"
    /\ UNCHANGED <<compSpec, compResult, compText>>
    /\ UNCHANGED OtherThanComponent

\* style: this.parseStyle(spec.style)
ParseStyle ==
    /\ compPc = "style"
    /\ component' = [component EXCEPT !.style = parseStyle(compSpec.style)]
    /\ compPc' = "states"
    /\ UNCHANGED <<compSpec, compResult, compText>>
    /\ UNCHANGED OtherThanComponent

\* states: this.parseStates(spec.states)
ParseStates ==
    /\ compPc = "states"
    /\ component' = [component EXCEPT !.states = parseStates(compSpec.states)]
    /\ compPc' = "slots"
    /\ UNCHANGED <<compSpec, compResult, compText>>
    /\ UNCHANGED OtherThanComponent

\* slots: this.parseSlots(spec.slots || []), and the object is returned with
\* name, category and `spec.description || spec.component`
ParseSlotsReturn ==
    /\ compPc = "slots"
    /\ component' = [component EXCEPT !.slots = parseSlots(OrElse(compSpec.slots, <<>>))]
    /\ compResult' =
         Some([name |-> compSpec.component,
               category |-> compSpec.category,
               description |-> StringOrElse(compSpec.description, compSpec.component),
               parsed |-> component'])
    /\ compPc' = "done"
    /\ UNCHANGED <<compSpec, compText>>
    /\ UNCHANGED OtherThanComponent

(***************************************************************************)
(* Claims about ComponentSpecParser (SpecComponent)                        *)
(***************************************************************************)
\* the actions and the state names the spec document declares
DeclaredActions == IF compSpec.actions = Undefined THEN <<>> ELSE compSpec.actions[1]

DeclaredStateNames ==
    IF compSpec.states = Undefined THEN {}
    ELSE {compSpec.states[1][i].name : i \in 1..Len(compSpec.states[1])}

ParsedStateKeys ==
    {compResult[1].parsed.states[i].key : i \in 1..Len(compResult[1].parsed.states)}

\* C13: the returned component has hasAsyncAction = TRUE exactly when some
\* declared action has type "async" (FALSE without actions), and
\* hasLoadingState = TRUE exactly when the spec's states have a state named
\* loading, which is exactly when the parsed states map has the key loading.
C13_DerivedFlags ==
    compPc = "done" =>
      /\ compResult[1].parsed.hasAsyncAction
           = (\E i \in 1..Len(DeclaredActions) : DeclaredActions[i].type = "async")
      /\ compResult[1].parsed.hasLoadingState = ("loading" \in DeclaredStateNames)
      /\ compResult[1].parsed.hasLoadingState = ("loading" \in ParsedStateKeys)

\* C13 happens: two actions of which only the second is async, and a
\* loading state declared after another one
C13_Witness ==
    /\ compPc = "done"
    /\ Len(DeclaredActions) = 2
    /\ DeclaredActions[1].type = "sync"
    /\ DeclaredActions[2].type = "async"
    /\ DeclaredStateNames = {"pressed", "loading"}
    /\ compResult[1].parsed.hasAsyncAction
    /\ compResult[1].parsed.hasLoadingState

\* the side of the padding the claim expects for a spec's style
ExpectedSide(side) ==
    IF compSpec.style = Undefined \/ compSpec.style[1].padding = Undefined THEN 16
    ELSE IF compSpec.style[1].padding[1].kind = "number"
    THEN compSpec.style[1].padding[1].num
    ELSE IF compSpec.style[1].padding[1][side] = Undefined THEN 16
    ELSE compSpec.style[1].padding[1][side][1]

\* C14: the returned component's style.padding has all four sides as
\* numbers: 16 each without style or padding, the number itself (0 too) on
\* each side for a single number, and for an object each given side kept and
\* each missing side 16.
C14_PaddingFourSided ==
    compPc = "done" =>
      /\ DOMAIN compResult[1].parsed.style.padding
           = {"top", "bottom", "leading", "trailing"}
      /\ \A side \in {"top", "bottom", "leading", "trailing"} :
           /\ compResult[1].parsed.style.padding[side] \in Nat
           /\ compResult[1].parsed.style.padding[side] = ExpectedSide(side)

\* C14 happens: an object padding with top 0 and bottom missing
C14_Witness ==
    /\ compPc = "done"
    /\ compSpec.style # Undefined
    /\ compSpec.style[1].padding = Some(PaddingSides(Some(0), Undefined, Some(4), Undefined))
    /\ compResult[1].parsed.style.padding
         = [top |-> 0, bottom |-> 16, leading |-> 4, trailing |-> 16]

\* the translation the claim gives for a type expression: Binding<T> as T,
\* T[] as [T], T? as T?, a scalar as its mapped name (every scalar maps to
\* itself), any other name as itself
RECURSIVE Translation(_)
Translation(t) ==
    IF t.wrap = "name" THEN t.name
    ELSE IF t.wrap = "binding" THEN Translation(t.of)
    ELSE IF t.wrap = "array" THEN <<"[">> \o Translation(t.of) \o <<"]">>
    ELSE Translation(t.of) \o <<"?">>

\* C15 (as claimed): a property whose type is a nesting of Binding<>, [] and ?
\* over a name gets as swiftType the translation of that nesting, a name that
\* is no known scalar being kept unchanged.
C15_TypeTranslation ==
    compPc = "done" =>
      \A i \in 1..Len(compSpec.properties) :
        \A t \in TypeTrees(MaxWrap) :
          Spell(t) = compSpec.properties[i].type =>
            compResult[1].parsed.properties[i].swiftType = BareString(Translation(t))

(***************************************************************************)
(* PluginSpecParser                                                        *)
(* A string of a plugin is a sequence of pieces whose concatenation is the *)
(* text: the characters of a name, or the fixed parts of a template.       *)
(***************************************************************************)
\* `opt || dflt` for an optional text: undefined and the empty text are falsy
TextOrElse(opt, dflt) == IF opt = Undefined \/ opt[1] = <<>> THEN dflt ELSE opt[1]

debugLoggingProperty ==
    [name |-> <<"enableDebugLogging">>,
     type |-> <<"b", "o", "o", "l", "e", "a", "n">>,
     description |-> <<"Whether to enable debug logging">>,
     required |-> Some(FALSE),
     defaultValue |-> Some([kind |-> "boolean", bool |-> FALSE])]

\* parseConfig(config, pluginName)
parseConfig(config) ==
    IF config = Undefined THEN [properties |-> <<debugLoggingProperty>>]
    ELSE [properties |->
            [i \in 1..Len(config[1].properties) |->
                [name |-> config[1].properties[i].name,
                 type |-> config[1].properties[i].type,
                 description |-> TextOrElse(config[1].properties[i].description,
                                            config[1].properties[i].name),
                 required |-> config[1].properties[i].required,
                 defaultValue |-> config[1].properties[i].defaultValue]]]

\* parseMethods(methods), its argument here pluginMethods: a parsed parameter has name, type, required and
\* defaultValue
parseMethods(pluginMethods) ==
    [i \in 1..Len(pluginMethods) |->
        [name |-> pluginMethods[i].name,
         description |-> TextOrElse(pluginMethods[i].description, pluginMethods[i].name),
         parameters |-> [j \in 1..Len(pluginMethods[i].parameters) |->
            [name |-> pluginMethods[i].parameters[j].name,
             type |-> pluginMethods[i].parameters[j].type,
             required |-> pluginMethods[i].parameters[j].required,
             defaultValue |-> pluginMethods[i].parameters[j].defaultValue]],
         returnType |-> pluginMethods[i].returnType,
         isAsync |-> pluginMethods[i].isAsync,
         throws |-> pluginMethods[i].throws]]

\* parseModels(models)
parseModels(models) ==
    [i \in 1..Len(models) |->
        [name |-> models[i].name,
         description |-> TextOrElse(models[i].description, models[i].name),
         properties |-> [j \in 1..Len(models[i].properties) |->
            [name |-> models[i].properties[j].name,
             type |-> models[i].properties[j].type,
             description |-> TextOrElse(models[i].properties[j].description,
                                        models[i].properties[j].name),
             required |-> models[i].properties[j].required]]]]

\* parseProviders(providers, defaultProtocol)
parseProviders(providers, defaultProtocol) ==
    [i \in 1..Len(providers) |->
        [name |-> providers[i].name,
         description |-> TextOrElse(providers[i].description, providers[i].name),
         protocol |-> TextOrElse(providers[i].protocol, defaultProtocol)]]

\* a slip in parse: the protocol name derived whenever `providers` is given,
\* an empty list too
PluginSpecParser_parse_anyProviders(spec) ==
    LET name == spec.name
        pluginName == <<"Cuppa">> \o name \o <<"P", "l", "u", "g", "i", "n">>
        managerName == name \o <<"M", "a", "n", "a", "g", "e", "r">>
        protocolName == IF spec.providers # Undefined
                        THEN Some(name \o <<"P", "r", "o", "v", "i", "d", "e", "r">>)
                        ELSE Undefined
    IN  [name |-> pluginName,
         identifier |-> TextOrElse(spec.identifier,
                                   <<"com.cuppa.">> \o ToLowerCase(name)),
         version |-> TextOrElse(spec.version, <<"1.0.0">>),
         description |-> TextOrElse(spec.description,
                                    <<"P", "l", "u", "g", "i", "n", " ", "f", "o", "r", " ">> \o name
                                        \o <<" ", "f", "u", "n", "c", "t", "i", "o", "n", "a", "l", "i", "t", "y">>),
         author |-> TextOrElse(spec.author, <<"MyCuppa Team">>),
         dependencies |-> OrElse(spec.dependencies, <<>>),
         configuration |-> parseConfig(spec.configuration),
         methods |-> parseMethods(OrElse(spec.methods, <<>>)),
         models |-> parseModels(OrElse(spec.models, <<>>)),
         providers |-> parseProviders(OrElse(spec.providers, <<>>),
                                      OrElse(protocolName, <<>>)),
         managerName |-> managerName,
         protocolName |-> protocolName]

\* parse(spec)
PluginSpecParser_parse(spec) ==
    LET name == spec.name
        pluginName == <<"Cuppa">> \o name \o <<"P", "l", "u", "g", "i", "n">>
        managerName == name \o <<"M", "a", "n", "a", "g", "e", "r">>
        protocolName == IF spec.providers # Undefined /\ Len(spec.providers[1]) > 0
                        THEN Some(name \o <<"P", "r", "o", "v", "i", "d", "e", "r">>)
                        ELSE Undefined
    IN  [name |-> pluginName,
         identifier |-> TextOrElse(spec.identifier,
                                   <<"com.cuppa.">> \o ToLowerCase(name)),
         version |-> TextOrElse(spec.version, <<"1.0.0">>),
         description |-> TextOrElse(spec.description,
                                    <<"P", "l", "u", "g", "i", "n", " ", "f", "o", "r", " ">> \o name
                                        \o <<" ", "f", "u", "n", "c", "t", "i", "o", "n", "a", "l", "i", "t", "y">>),
         author |-> TextOrElse(spec.author, <<"MyCuppa Team">>),
         dependencies |-> OrElse(spec.dependencies, <<>>),
         configuration |-> parseConfig(spec.configuration),
         methods |-> parseMethods(OrElse(spec.methods, <<>>)),
         models |-> parseModels(OrElse(spec.models, <<>>)),
         providers |-> parseProviders(OrElse(spec.providers, <<>>),
                                      OrElse(protocolName, <<>>)),
         managerName |-> managerName,
         protocolName |-> protocolName]

(***************************************************************************)
(* SwiftPluginGenerator                                                    *)
(* A text is the sequence of its lines (what join('\n') separates), a line *)
(* the sequence of its pieces. Characters outside ASCII, and the fence of   *)
(* three backquotes, are written by name, in brackets.                     *)
(***************************************************************************)
\* parts.join(sep) for texts
RECURSIVE JoinWith(_, _)
JoinWith(parts, sep) ==
    IF parts = <<>> THEN <<>>
    ELSE IF Len(parts) = 1 THEN parts[1]
    ELSE parts[1] \o sep \o JoinWith(Tail(parts), sep)

\* the lines of parts.join(sep + '\n'), each part one line: '' for no part
JoinLines(parts, sep) ==
    IF parts = <<>> THEN << <<>> >>
    ELSE [i \in 1..Len(parts) |-> IF i < Len(parts) THEN parts[i] \o sep ELSE parts[i]]

\* createHeader(fileName), with the date of the call
SwiftPluginGenerator_createHeader(fileName, date) ==
    << <<"//">>,
       <<"//  ">> \o fileName \o <<".swift">>,
       <<"//">>,
       <<"//  Generated by cuppa-cli on ">> \o <<date>>,
       <<"//  Copyright (c) 2025 MyCuppa. All rights reserved.">>,
       <<"//">>,
       <<>> >>

\* the keys of mapType's typeMap and what they map to
pluginTypeMap ==
    {[key |-> <<"s", "t", "r", "i", "n", "g">>, value |-> <<"S", "t", "r", "i", "n", "g">>],
     [key |-> <<"n", "u", "m", "b", "e", "r">>, value |-> <<"D", "o", "u", "b", "l", "e">>],
     [key |-> <<"i", "n", "t", "e", "g", "e", "r">>, value |-> <<"I", "n", "t">>],
     [key |-> <<"b", "o", "o", "l", "e", "a", "n">>, value |-> <<"B", "o", "o", "l">>],
     [key |-> <<"v", "o", "i", "d">>, value |-> <<"V", "o", "i", "d">>],
     [key |-> <<"a", "n", "y">>, value |-> <<"A", "n", "y">>]}

\* mapType(type), as it reads inside a template: typeMap[type.toLowerCase()]
\* (an object literal, so what Object.prototype has is found too) || type
mapType(type) ==
    LET key == ToLowerCase(type)
    IN  IF \E e \in pluginTypeMap : e.key = key
        THEN (CHOOSE e \in pluginTypeMap : e.key = key).value
        ELSE IF \E e \in ObjectPrototype : e.key = key
        THEN TemplateText((CHOOSE e \in ObjectPrototype : e.key = key).value)
        ELSE type

\* formatValue(value, type)
formatValue(value) ==
    IF value.kind = "string" THEN <<"\"">> \o value.str \o <<"\"">>
    ELSE IF value.kind = "boolean" THEN (IF value.bool THEN <<"true">> ELSE <<"false">>)
    ELSE NumberToString(value.num)

\* formatArray(items)
formatArray(items) ==
    IF Len(items) = 0 THEN <<"[]">>
    ELSE <<"[\"">> \o JoinWith(items, <<"\", \"">>) \o <<"\"]">>

\* `x` is truthy, for an optional text
Truthy(opt) == opt # Undefined /\ opt[1] # <<>>

\* method.parameters.map(p => `${p.name}: ${this.mapType(p.type)}`).join(', ')
MethodParams(method) ==
    JoinWith([i \in 1..Len(method.parameters) |->
                method.parameters[i].name \o <<": ">> \o mapType(method.parameters[i].type)],
             <<", ">>)

\* the keywords and return type of a method's signature
MethodSuffix(method) ==
    (IF method.isAsync THEN <<" async">> ELSE <<>>)
        \o (IF method.throws THEN <<" throws">> ELSE <<>>)
        \o (IF method.returnType # <<"v", "o", "i", "d">>
            THEN <<" -> ">> \o mapType(method.returnType) ELSE <<>>)

\* the `/// description` line, when the description is not empty
DocLine(indent, description) ==
    IF description # <<>> THEN << <<indent, "/// ">> \o description >> ELSE <<>>

\* generatePluginFile(plugin)
generatePluginFile(p, date) ==
    Join(<<
        SwiftPluginGenerator_createHeader(p.name, date),
        << <<"import Foundation">>,
           <<"import CuppaCore">>,
           <<>>,
           <<"/// Plugin for integrating ">> \o p.description,
           <<"@MainActor">>,
           <<"public final class ">> \o p.name \o <<": CuppaPlugin {">>,
           <<"    public let identifier = \"">> \o p.identifier \o <<"\"">>,
           <<"    public let version = \"">> \o p.version \o <<"\"">>,
           <<"    public let dependencies: [String] = ">> \o formatArray(p.dependencies),
           <<>>,
           <<"    private var config: ">> \o p.name \o <<"Configuration?">>,
           <<>>,
           <<"    public init() {}">>,
           <<>>,
           <<"    public func initialize(with config: PluginConfiguration) async throws {">>,
           <<"        guard let pluginConfig = config as? ">> \o p.name \o <<"Configuration else {">>,
           <<"            throw PluginError.invalidConfiguration(">>,
           <<"                reason: \"Expected ">> \o p.name \o <<"Configuration, got \\(type(of: config))\"">>,
           <<"            )">>,
           <<"        }">>,
           <<>>,
           <<"        self.config = pluginConfig">>,
           <<>> >>,
        IF Truthy(p.protocolName)
        THEN << <<"        // Register provider with ">> \o p.managerName,
                <<"        ">> \o p.managerName \o <<".shared.register(">>,
                <<"            pluginConfig.provider,">>,
                <<"            enableDebugLogging: pluginConfig.enableDebugLogging">>,
                <<"        )">>,
                <<>> >>
        ELSE <<>>,
        << <<"        if pluginConfig.enableDebugLogging {">>,
           <<"            print(\"[plug] ">> \o p.name \o <<" initialized\")">> >>,
        LET shown == SelectSeq(p.configuration.properties,
                               LAMBDA prop : prop.name # <<"enableDebugLogging">>)
        IN  [i \in 1..Len(shown) |->
                <<"            print(\"   - ">> \o shown[i].name \o <<": \\(pluginConfig.">> \o shown[i].name \o <<")\")">>],
        << <<"        }">>,
           <<>>,
           <<"        print(\"[check] ">> \o p.name \o <<" initialized\")">>,
           <<"    }">>,
           <<>>,
           <<"    nonisolated public func register(with container: ServiceContainer) {">>,
           <<"        // Register ">> \o ToLowerCase(p.managerName) \o <<" as a service">>,
           <<"        container.register(">> \o p.managerName \o <<".self) { _ in">>,
           <<"            ">> \o p.managerName \o <<".shared">>,
           <<"        }">>,
           <<"    }">>,
           <<>>,
           <<"    public func teardown() async {">>,
           <<"        config = nil">>,
           <<"        print(\"[bin] ">> \o p.name \o <<" torn down\")">>,
           <<"    }">>,
           <<"}">>,
           <<>> >> >>)

\* generateConfigFile(plugin)
generateConfigFile_providerAlways(p, date) ==
    LET props == p.configuration.properties
        protocolName == OrElse(p.protocolName, <<"undefined">>)
    IN  Join(<<
        SwiftPluginGenerator_createHeader(p.name \o <<"Configuration">>, date),
        << <<"import Foundation">>,
           <<"import CuppaCore">>,
           <<>>,
           <<"/// Configuration for ">> \o p.name \o <<".">>,
           <<"public struct ">> \o p.name \o <<"Configuration: PluginConfiguration {">> >>,
        Join([i \in 1..Len(props) |->
                DocLine("    ", props[i].description)
                  \o << <<"    public let ">> \o props[i].name \o <<": ">> \o mapType(props[i].type),
                        <<>> >>]),
        << <<"    /// ">> \o protocolName \o <<" implementation">>,
                <<"    public let provider: ">> \o protocolName,
                <<>> >>,
        << <<"    /// Required settings dictionary for PluginConfiguration conformance">>,
           <<"    public var settings: [String: Any] {">>,
           <<"        [">> >>,
        [i \in 1..Len(props) |-> <<"            \"">> \o props[i].name \o <<"\": ">> \o props[i].name \o <<",">>],
        << <<"        ]">>,
           <<"    }">>,
           <<>>,
           <<"    public init(">> >>,
        JoinLines(
            << <<"        provider: ">> \o protocolName >>
              \o [i \in 1..Len(props) |->
                    <<"        ">> \o props[i].name \o <<": ">> \o mapType(props[i].type)
                      \o (IF props[i].defaultValue # Undefined
                          THEN <<" = ">> \o formatValue(props[i].defaultValue[1])
                          ELSE <<>>)],
            <<",">>),
        << <<"    ) {">> >>,
        << <<"        self.provider = provider">> >>,
        [i \in 1..Len(props) |-> <<"        self.">> \o props[i].name \o <<" = ">> \o props[i].name],
        << <<"    }">>,
           <<"}">>,
           <<>> >> >>)

generateConfigFile(p, date) ==
    LET props == p.configuration.properties
        protocolName == OrElse(p.protocolName, <<>>)
    IN  Join(<<
        SwiftPluginGenerator_createHeader(p.name \o <<"Configuration">>, date),
        << <<"import Foundation">>,
           <<"import CuppaCore">>,
           <<>>,
           <<"/// Configuration for ">> \o p.name \o <<".">>,
           <<"public struct ">> \o p.name \o <<"Configuration: PluginConfiguration {">> >>,
        Join([i \in 1..Len(props) |->
                DocLine("    ", props[i].description)
                  \o << <<"    public let ">> \o props[i].name \o <<": ">> \o mapType(props[i].type),
                        <<>> >>]),
        IF Truthy(p.protocolName)
        THEN << <<"    /// ">> \o protocolName \o <<" implementation">>,
                <<"    public let provider: ">> \o protocolName,
                <<>> >>
        ELSE <<>>,
        << <<"    /// Required settings dictionary for PluginConfiguration conformance">>,
           <<"    public var settings: [String: Any] {">>,
           <<"        [">> >>,
        [i \in 1..Len(props) |-> <<"            \"">> \o props[i].name \o <<"\": ">> \o props[i].name \o <<",">>],
        << <<"        ]">>,
           <<"    }">>,
           <<>>,
           <<"    public init(">> >>,
        JoinLines(
            (IF Truthy(p.protocolName)
             THEN << <<"        provider: ">> \o protocolName >> ELSE <<>>)
              \o [i \in 1..Len(props) |->
                    <<"        ">> \o props[i].name \o <<": ">> \o mapType(props[i].type)
                      \o (IF props[i].defaultValue # Undefined
                          THEN <<" = ">> \o formatValue(props[i].defaultValue[1])
                          ELSE <<>>)],
            <<",">>),
        << <<"    ) {">> >>,
        IF Truthy(p.protocolName)
        THEN << <<"        self.provider = provider">> >>
        ELSE <<>>,
        [i \in 1..Len(props) |-> <<"        self.">> \o props[i].name \o <<" = ">> \o props[i].name],
        << <<"    }">>,
           <<"}">>,
           <<>> >> >>)

\* generateMethod(method, plugin)
generateMethod(method, p) ==
    Join(<<
        DocLine("    ", method.description),
        << <<"    public func ">> \o method.name \o <<"(">> \o MethodParams(method)
             \o <<")">> \o MethodSuffix(method) \o <<" {">> >>,
        IF Truthy(p.protocolName)
        THEN << <<"        guard let provider = provider else {">>,
                <<"            fatalError(\"No provider registered\")">>,
                <<"        }">>,
                <<>>,
                <<"        ">>
                  \o (IF method.returnType # <<"v", "o", "i", "d">> THEN <<"return ">> ELSE <<>>)
                  \o (IF method.throws THEN <<"try ">> ELSE <<>>)
                  \o (IF method.isAsync THEN <<"await ">> ELSE <<>>)
                  \o <<"provider.">> \o method.name \o <<"(">>
                  \o JoinWith([i \in 1..Len(method.parameters) |->
                                method.parameters[i].name \o <<": ">>
                                  \o method.parameters[i].name], <<", ">>)
                  \o <<")">> >>
        ELSE << <<"        // TODO: Implement this method">> >>,
        << <<"    }">> >> >>)

\* generateManagerFile(plugin)
generateManagerFile(p, date) ==
    LET protocolName == OrElse(p.protocolName, <<>>)
    IN  Join(<<
        SwiftPluginGenerator_createHeader(p.managerName, date),
        << <<"import Foundation">>,
           <<>>,
           <<"/// Manager for coordinating ">> \o p.description,
           <<"@MainActor">>,
           <<"public final class ">> \o p.managerName \o <<": ObservableObject {">>,
           <<"    public static let shared = ">> \o p.managerName \o <<"()">>,
           <<>> >>,
        IF Truthy(p.protocolName)
        THEN << <<"    private var provider: ">> \o protocolName \o <<"?">> >>
        ELSE <<>>,
        << <<"    private var enableDebugLogging = false">>,
           <<>>,
           <<"    private init() {}">>,
           <<>> >>,
        IF Truthy(p.protocolName)
        THEN << <<"    /// Register a ">> \o ToLowerCase(protocolName),
                <<"    public func register(_ provider: ">> \o protocolName \o <<", enableDebugLogging: Bool = false) {">>,
                <<"        self.provider = provider">>,
                <<"        self.enableDebugLogging = enableDebugLogging">>,
                <<"    }">>,
                <<>> >>
        ELSE <<>>,
        Join([i \in 1..Len(p.methods) |-> generateMethod(p.methods[i], p) \o << <<>> >>]),
        << <<"}">>, <<>> >> >>)

\* generateProtocolFile(plugin)
generateProtocolFile(p, date) ==
    LET protocolName == OrElse(p.protocolName, <<>>)
    IN  Join(<<
        SwiftPluginGenerator_createHeader(protocolName, date),
        << <<"import Foundation">>,
           <<>>,
           <<"/// Protocol for ">> \o ToLowerCase(p.description) \o <<" providers.">>,
           <<"public protocol ">> \o protocolName \o <<": Sendable {">> >>,
        Join([i \in 1..Len(p.methods) |->
                DocLine("    ", p.methods[i].description)
                  \o << <<"    func ">> \o p.methods[i].name \o <<"(">>
                          \o MethodParams(p.methods[i]) \o <<")">>
                          \o MethodSuffix(p.methods[i]),
                        <<>> >>]),
        << <<"}">>, <<>> >> >>)

\* generateModelFile(model, plugin)
generateModelFile(model, date) ==
    LET props == model.properties
        optional(prop) == IF BoolOrFalse(prop.required) THEN <<>> ELSE <<"?">>
    IN  Join(<<
        SwiftPluginGenerator_createHeader(model.name, date),
        << <<"import Foundation">>, <<>> >>,
        DocLine("", model.description),
        << <<"public struct ">> \o model.name \o <<": Codable, Sendable {">> >>,
        Join([i \in 1..Len(props) |->
                DocLine("    ", props[i].description)
                  \o << <<"    public let ">> \o props[i].name \o <<": ">>
                          \o mapType(props[i].type) \o optional(props[i]),
                        <<>> >>]),
        << <<"    public init(">> >>,
        JoinLines([i \in 1..Len(props) |->
                    <<"        ">> \o props[i].name \o <<": ">> \o mapType(props[i].type)
                      \o optional(props[i])
                      \o (IF ~BoolOrFalse(props[i].required) THEN <<" = nil">> ELSE <<>>)],
                  <<",">>),
        << <<"    ) {">> >>,
        [i \in 1..Len(props) |->
            <<"        self.">> \o props[i].name \o <<" = ">> \o props[i].name],
        << <<"    }">>, <<"}">>, <<>> >> >>)

\* generateProviderFile(provider, plugin)
generateProviderFile(provider, p, date) ==
    Join(<<
        SwiftPluginGenerator_createHeader(provider.name, date),
        << <<"import Foundation">>, <<>> >>,
        DocLine("", provider.description),
        << <<"public final class ">> \o provider.name \o <<": ">> \o provider.protocol
             \o <<", @unchecked Sendable {">>,
           <<"    public init() {}">>,
           <<>> >>,
        Join([i \in 1..Len(p.methods) |->
                DocLine("    ", p.methods[i].description)
                  \o << <<"    public func ">> \o p.methods[i].name \o <<"(">>
                          \o MethodParams(p.methods[i]) \o <<")">>
                          \o MethodSuffix(p.methods[i]) \o <<" {">>,
                        <<"        // TODO: Implement this method">> >>
                  \o (IF p.methods[i].returnType # <<"v", "o", "i", "d">>
                      THEN << <<"        fatalError(\"">> \o p.methods[i].name
                                \o <<" not implemented\")">> >>
                      ELSE <<>>)
                  \o << <<"    }">>, <<>> >>]),
        << <<"}">>, <<>> >> >>)

\* generateReadme(plugin)
generateReadme(p) ==
    LET protocolName == OrElse(p.protocolName, <<>>)
    IN  Join(<<
        << <<"# ">> \o p.name,
           <<>>,
           p.description,
           <<>>,
           <<"## Installation">>,
           <<>>,
           <<"[fence]swift">>,
           <<"// Add to your Package.swift dependencies">>,
           <<".package(url: \"...\", from: \"">> \o p.version \o <<"\")">>,
           <<"[fence]">>,
           <<>>,
           <<"## Usage">>,
           <<>>,
           <<"[fence]swift">>,
           <<"import CuppaCore">>,
           <<"import ">> \o p.name,
           <<>>,
           <<"// Configure the plugin">>,
           <<"let config = ">> \o p.name \o <<"Configuration(">> >>,
        IF Truthy(p.protocolName)
        THEN << <<"    provider: Your">> \o protocolName \o <<"(),">> >>
        ELSE <<>>,
        << <<"    enableDebugLogging: true">>,
           <<")">>,
           <<>>,
           <<"// Register with PluginManager">>,
           <<"let plugin = ">> \o p.name \o <<"()">>,
           <<"try await PluginManager.shared.register(plugin, config: config)">>,
           <<"[fence]">>,
           <<>>,
           <<"## License">>,
           <<>>,
           <<"Copyright (c) 2025 ">> \o p.author,
           <<>> >> >>)

\* ---- the plugin specs the model draws from ----
MaxProviders == 2

PluginNames == {<<"A", "u", "t", "h">>, <<"A", "n", "a", "l", "y", "t", "i", "c", "s">>}

NoPluginSpec ==
    [name |-> <<"A", "u", "t", "h">>, identifier |-> Undefined, version |-> Undefined,
     description |-> Undefined, author |-> Undefined, dependencies |-> Undefined,
     configuration |-> Undefined, methods |-> Undefined, models |-> Undefined,
     providers |-> Undefined]

ProviderChoices(name) ==
    {[name |-> <<"Console">> \o name \o <<"P", "r", "o", "v", "i", "d", "e", "r">>,
      description |-> Some(<<"Console-based provider for testing">>),
      protocol |-> Undefined],
     [name |-> <<"Remote">> \o name \o <<"P", "r", "o", "v", "i", "d", "e", "r">>,
      description |-> Undefined,
      protocol |-> Some(<<"RemoteProviding">>)]}

InputParameter ==
    [name |-> <<"input">>, type |-> <<"s", "t", "r", "i", "n", "g">>, required |-> Some(TRUE),
     defaultValue |-> Undefined]

MethodChoices ==
    {Undefined,
     Some(<<[name |-> <<"start">>, description |-> Some(<<"Start the service">>),
             parameters |-> <<>>, returnType |-> <<"v", "o", "i", "d">>,
             isAsync |-> TRUE, throws |-> FALSE]>>),
     Some(<<[name |-> <<"initialize">>, description |-> Undefined,
             parameters |-> <<>>, returnType |-> <<"v", "o", "i", "d">>,
             isAsync |-> TRUE, throws |-> TRUE],
            [name |-> <<"performAction">>,
             description |-> Some(<<"Perform the main action">>),
             parameters |-> <<InputParameter>>, returnType |-> <<"s", "t", "r", "i", "n", "g">>,
             isAsync |-> FALSE, throws |-> TRUE]>>)}

UserModel ==
    [name |-> <<"User">>, description |-> Undefined,
     properties |-> <<[name |-> <<"id">>, type |-> <<"i", "n", "t", "e", "g", "e", "r">>,
                       description |-> Undefined, required |-> Some(TRUE)],
                      [name |-> <<"email">>, type |-> <<"s", "t", "r", "i", "n", "g">>,
                       description |-> Some(<<"Address">>), required |-> Some(FALSE)]>>]

ApiKeyConfig ==
    [properties |->
        <<[name |-> <<"enableDebugLogging">>,
           type |-> <<"b", "o", "o", "l", "e", "a", "n">>,
           description |-> Some(<<"Log every call">>), required |-> Some(FALSE),
           defaultValue |-> Some([kind |-> "boolean", bool |-> TRUE])],
          [name |-> <<"apiKey">>, type |-> <<"s", "t", "r", "i", "n", "g">>, description |-> Undefined,
           required |-> Some(TRUE), defaultValue |-> Undefined],
          [name |-> <<"retries">>, type |-> <<"i", "n", "t", "e", "g", "e", "r">>, description |-> Undefined,
           required |-> Some(FALSE),
           defaultValue |-> Some(BareNumber(Number(FALSE, 3, <<>>)))]>>]

\* specs that differ in their providers, methods, models and configuration
ProviderDocs ==
    UNION {{[NoPluginSpec EXCEPT !.name = n, !.providers = pr, !.methods = me,
                                 !.models = mo, !.configuration = co] :
                pr \in {Undefined}
                        \cup {Some(l) : l \in DistinctSeqsUpTo(ProviderChoices(n),
                                                               MaxProviders)},
                me \in MethodChoices,
                mo \in {Undefined, Some(<<UserModel>>)},
                co \in {Undefined, Some(ApiKeyConfig)}} :
           n \in PluginNames}

\* specs whose configuration property, method parameter and model property
\* leave `required`, `description` or `defaultValue` unset, or set them
PluginDefaultsDocs ==
    {[NoPluginSpec EXCEPT
        !.identifier = d, !.description = d,
        !.configuration =
            Some([properties |-> <<[name |-> <<"region">>, type |-> <<"s", "t", "r", "i", "n", "g">>,
                                    description |-> d, required |-> r,
                                    defaultValue |-> v]>>]),
        !.methods =
            Some(<<[name |-> <<"send">>, description |-> d,
                    parameters |-> <<[name |-> <<"payload">>, type |-> <<"a", "n", "y">>,
                                      required |-> r, defaultValue |-> v]>>,
                    returnType |-> <<"b", "o", "o", "l", "e", "a", "n">>, isAsync |-> FALSE, throws |-> FALSE]>>),
        !.models =
            Some(<<[name |-> <<"Event">>, description |-> d,
                    properties |-> <<[name |-> <<"label">>, type |-> <<"s", "t", "r", "i", "n", "g">>,
                                      description |-> d, required |-> r]>>]>>)] :
        r \in {Undefined, Some(TRUE), Some(FALSE)},
        v \in {Undefined, Some(BareString(<<"eu">>))},
        d \in {Undefined, Some(<<>>), Some(<<"D", "e", "s", "c", "r", "i", "b", "e", "d">>)}}

\* the dates a run can see, in order
Dates == <<"2025-06-30", "2025-07-01">>

\* ---- PluginSpecParser.parse, then SwiftPluginGenerator.generatePlugin ----
PluginIdle ==
    /\ plugSpec = NoPluginSpec
    /\ plugPc = "idle"
    /\ plugin = Undefined
    /\ fileIdx = 1
    /\ files = <<>>

PluginStart ==
    /\ plugSpec \in ProviderDocs \cup PluginDefaultsDocs
    /\ plugPc = "parse"
    /\ plugin = Undefined
    /\ fileIdx = 1
    /\ files = <<>>

ClockIdle == today = Dates[1]

\* Map.prototype.set: the value of an existing key is replaced in place
MapSet(entries, key, value) ==
    IF \E i \in 1..Len(entries) : entries[i].key = key
    THEN [i \in 1..Len(entries) |->
            IF entries[i].key = key THEN [key |-> key, value |-> value] ELSE entries[i]]
    ELSE Append(entries, [key |-> key, value |-> value])

\* the day changes while the command runs
Tick ==
    /\ plugPc \notin {"idle", "done"} \/ genPc \in {"first", "second"}
    /\ \E i \in 1..Len(Dates) - 1 : today = Dates[i] /\ today' = Dates[i + 1]
    /\ UNCHANGED pluginVars
    /\ UNCHANGED OtherThanPlugin

\* parser.parse(spec)
ParsePlugin ==
    /\ plugPc = "parse"
    /\ plugin' = Some(PluginSpecParser_parse(plugSpec))
    /\ plugPc' = "pluginFile"
    /\ UNCHANGED <<plugSpec, fileIdx, files, today>>
    /\ UNCHANGED OtherThanPlugin

\* files.set(`${plugin.name}.swift`, this.generatePluginFile(plugin))
SetPluginFile ==
    /\ plugPc = "pluginFile"
    /\ files' = MapSet(files, plugin[1].name \o <<".swift">>,
                       generatePluginFile(plugin[1], today))
    /\ plugPc' = "configFile"
    /\ UNCHANGED <<plugSpec, plugin, fileIdx, today>>
    /\ UNCHANGED OtherThanPlugin

\* files.set(`${plugin.name}Configuration.swift`, this.generateConfigFile(plugin))
SetConfigFile ==
    /\ plugPc = "configFile"
    /\ files' = MapSet(files, plugin[1].name \o <<"Configuration.swift">>,
                       generateConfigFile(plugin[1], today))
    /\ plugPc' = "managerFile"
    /\ UNCHANGED <<plugSpec, plugin, fileIdx, today>>
    /\ UNCHANGED OtherThanPlugin

\* files.set(`${plugin.managerName}.swift`, this.generateManagerFile(plugin))
SetManagerFile ==
    /\ plugPc = "managerFile"
    /\ files' = MapSet(files, plugin[1].managerName \o <<".swift">>,
                       generateManagerFile(plugin[1], today))
    /\ plugPc' = "protocolFile"
    /\ UNCHANGED <<plugSpec, plugin, fileIdx, today>>
    /\ UNCHANGED OtherThanPlugin

\* a slip in generatePlugin: the protocol file written for every plugin
HasProtocol_always(p) == TRUE

\* if (plugin.protocolName && plugin.providers.length > 0)
HasProtocol(p) == Truthy(p.protocolName) /\ Len(p.providers) > 0

\* files.set(`${plugin.protocolName}.swift`, this.generateProtocolFile(plugin))
SetProtocolFile ==
    /\ plugPc = "protocolFile"
    /\ HasProtocol(plugin[1])
    /\ files' = MapSet(files, OrElse(plugin[1].protocolName, <<"undefined">>)
                                \o <<".swift">>,
                       generateProtocolFile(plugin[1], today))
    /\ plugPc' = "modelFiles"
    /\ UNCHANGED <<plugSpec, plugin, fileIdx, today>>
    /\ UNCHANGED OtherThanPlugin

SkipProtocolFile ==
    /\ plugPc = "protocolFile"
    /\ ~HasProtocol(plugin[1])
    /\ plugPc' = "modelFiles"
    /\ UNCHANGED <<plugSpec, plugin, fileIdx, files, today>>
    /\ UNCHANGED OtherThanPlugin

\* plugin.models.forEach: files.set(`${model.name}.swift`, ...)
SetModelFile ==
    /\ plugPc = "modelFiles"
    /\ fileIdx <= Len(plugin[1].models)
    /\ files' = MapSet(files, plugin[1].models[fileIdx].name \o <<".swift">>,
                       generateModelFile(plugin[1].models[fileIdx], today))
    /\ fileIdx' = fileIdx + 1
    /\ UNCHANGED <<plugSpec, plugPc, plugin, today>>
    /\ UNCHANGED OtherThanPlugin

ModelFilesDone ==
    /\ plugPc = "modelFiles"
    /\ fileIdx > Len(plugin[1].models)
    /\ plugPc' = "providerFiles"
    /\ fileIdx' = 1
    /\ UNCHANGED <<plugSpec, plugin, files, today>>
    /\ UNCHANGED OtherThanPlugin

\* plugin.providers.forEach: files.set(`${provider.name}.swift`, ...)
SetProviderFile ==
    /\ plugPc = "providerFiles"
    /\ fileIdx <= Len(plugin[1].providers)
    /\ files' = MapSet(files, plugin[1].providers[fileIdx].name \o <<".swift">>,
                       generateProviderFile(plugin[1].providers[fileIdx], plugin[1],
                                            today))
    /\ fileIdx' = fileIdx + 1
    /\ UNCHANGED <<plugSpec, plugPc, plugin, today>>
    /\ UNCHANGED OtherThanPlugin

\* files.set('README.md', this.generateReadme(plugin)); return files
SetReadme ==
    /\ plugPc = "providerFiles"
    /\ fileIdx > Len(plugin[1].providers)
    /\ files' = MapSet(files, <<"README.md">>, generateReadme(plugin[1]))
    /\ plugPc' = "done"
    /\ UNCHANGED <<plugSpec, plugin, fileIdx, today>>
    /\ UNCHANGED OtherThanPlugin

PluginNext ==
    \/ Tick
    \/ ParsePlugin
    \/ SetPluginFile
    \/ SetConfigFile
    \/ SetManagerFile
    \/ SetProtocolFile
    \/ SkipProtocolFile
    \/ SetModelFile
    \/ ModelFilesDone
    \/ SetProviderFile
    \/ SetReadme

\* ---- C16 ----
HasRequired(p) == p.required \in {Some(TRUE), Some(FALSE)}

\* a parser that writes `description` writes a text (`x.description || x.name`)
HasDescription(p) == "description" \in DOMAIN p

\* C16: in the output of the component-spec parser and of the plugin-spec
\* parser every property (component property, plugin configuration property,
\* method parameter, model property) has a defined boolean `required` and a
\* defined `description`, also when the spec document leaves them unset.
C16_DefaultsFilled ==
    /\ compResult # Undefined =>
        \A i \in 1..Len(compResult[1].parsed.properties) :
            /\ HasRequired(compResult[1].parsed.properties[i])
            /\ HasDescription(compResult[1].parsed.properties[i])
    /\ plugin # Undefined =>
        /\ \A i \in 1..Len(plugin[1].configuration.properties) :
            /\ HasRequired(plugin[1].configuration.properties[i])
            /\ HasDescription(plugin[1].configuration.properties[i])
        /\ \A i \in 1..Len(plugin[1].methods) :
            \A j \in 1..Len(plugin[1].methods[i].parameters) :
                /\ HasRequired(plugin[1].methods[i].parameters[j])
                /\ HasDescription(plugin[1].methods[i].parameters[j])
        /\ \A i \in 1..Len(plugin[1].models) :
            \A j \in 1..Len(plugin[1].models[i].properties) :
                /\ HasRequired(plugin[1].models[i].properties[j])
                /\ HasDescription(plugin[1].models[i].properties[j])

\* ---- C17 ----
\* the providers a spec declares (none when the key is absent)
DeclaredProviders == OrElse(plugSpec.providers, <<>>)

\* the manager and protocol names of a spec named N: `<N>Manager`, and
\* `<N>Provider` exactly when at least one provider is declared
ManagerAndProtocolDerived ==
    /\ plugin[1].managerName = plugSpec.name \o <<"M", "a", "n", "a", "g", "e", "r">>
    /\ Len(DeclaredProviders) > 0 =>
        plugin[1].protocolName = Some(plugSpec.name \o <<"P", "r", "o", "v", "i", "d", "e", "r">>)
    /\ Len(DeclaredProviders) = 0 => plugin[1].protocolName = Undefined

\* C17 as stated: for a plugin spec named N, parse yields name = `<N>Plugin`,
\* managerName = `<N>Manager`, and protocolName = `<N>Provider` if the spec
\* declares at least one provider and absent otherwise (an empty list counts
\* as none).
C17_NamesAsStated ==
    plugin # Undefined =>
        /\ plugin[1].name = plugSpec.name \o <<"P", "l", "u", "g", "i", "n">>
        /\ ManagerAndProtocolDerived

\* C17 amended: for a plugin spec named N, parse yields name =
\* `Cuppa<N>Plugin`, managerName = `<N>Manager`, and protocolName =
\* `<N>Provider` if the spec declares at least one provider and absent
\* otherwise (an empty list counts as none).
C17_DerivedNames ==
    plugin # Undefined =>
        /\ plugin[1].name = <<"Cuppa">> \o plugSpec.name \o <<"P", "l", "u", "g", "i", "n">>
        /\ ManagerAndProtocolDerived

\* C17 witness: a spec with an empty providers list has been parsed
C17_Witness ==
    /\ plugin # Undefined
    /\ plugSpec.providers = Some(<<>>)
    /\ plugin[1].protocolName = Undefined

\* ---- C18 ----
FileKeys == {files[i].key : i \in 1..Len(files)}

FileText(key) == files[CHOOSE i \in 1..Len(files) : files[i].key = key].value

\* the lines that declare, pass or assign a `provider` member
ProviderMemberOpenings ==
    {"    public let provider: ", "    private var provider: ",
     "        provider: ", "        self.provider = provider",
     "            pluginConfig.provider,"}

HasProviderMember(text) ==
    \E i \in 1..Len(text) : text[i] # <<>> /\ text[i][1] \in ProviderMemberOpenings

\* C18: for a plugin parsed by PluginSpecParser and generated by
\* generatePlugin, the file map contains `<protocolName>.swift`, and the
\* configuration, manager and plugin files contain a `provider` member,
\* exactly when the spec declares at least one provider.
C18_ProtocolScaffolding ==
    plugPc = "done" =>
        LET declared == Len(DeclaredProviders) > 0
            scaffold == {plugin[1].name \o <<".swift">>,
                         plugin[1].name \o <<"Configuration.swift">>,
                         plugin[1].managerName \o <<".swift">>}
            protocolFile == plugSpec.name \o <<"P", "r", "o", "v", "i", "d", "e", "r">>
                                \o <<".swift">>
            others == {plugin[1].models[i].name \o <<".swift">> :
                            i \in 1..Len(plugin[1].models)}
                      \cup {plugin[1].providers[i].name \o <<".swift">> :
                                i \in 1..Len(plugin[1].providers)}
                      \cup {<<"README.md">>}
        IN  /\ declared <=> protocolFile \in FileKeys
            /\ FileKeys \ {protocolFile} = scaffold \cup others
            /\ \A key \in scaffold : declared <=> HasProviderMember(FileText(key))

\* C18 witness: a plugin with two providers has been generated, protocol
\* file included
C18_Witness ==
    /\ plugPc = "done"
    /\ Len(DeclaredProviders) = 2
    /\ (plugSpec.name \o <<"P", "r", "o", "v", "i", "d", "e", "r">> \o <<".swift">>) \in FileKeys
    /\ HasProviderMember(FileText(plugin[1].managerName \o <<".swift">>))

(***************************************************************************)
(* SwiftComponentGenerator: the Swift text of a parsed component.  A text  *)
(* is its lines, a line its pieces; `[warn]` and `(c)` stand for the       *)
(* warning sign and the copyright sign, `[fence]` for the code fence.      *)
(***************************************************************************)
\* parse(spec): the whole ParsedComponent
ComponentSpecParser_parse(spec) ==
    LET actions == parseActions(OrElse(spec.actions, <<>>))
    IN  [name |-> spec.component,
         category |-> spec.category,
         description |-> StringOrElse(spec.description, spec.component),
         properties |-> ComponentSpecParser_parseProperties(spec.properties),
         style |-> parseStyle(spec.style),
         states |-> parseStates(spec.states),
         actions |-> actions,
         slots |-> parseSlots(OrElse(spec.slots, <<>>)),
         hasAsyncAction |-> \E i \in 1..Len(actions) : actions[i].isAsync,
         hasLoadingState |-> HasLoadingKey(spec.states)]

\* a header that also takes the copyright year from the clock
SwiftComponentGenerator_createHeader_yearFromClock(componentName, sourceFile, date) ==
    << <<"//">>,
       <<"//  ">> \o <<componentName>> \o <<".swift">>,
       <<"//  CuppaUI">>,
       <<"//">>,
       <<"//  Generated from component specifications on ">> \o <<date>> \o <<".">>,
       <<"//  Copyright (c) ">> \o <<date>> \o <<" MyCuppa. All rights reserved.">>,
       <<"//">>,
       <<"//  ">> \o <<componentName>> \o <<" component">>,
       <<"//">>,
       <<"//  [warn] DO NOT EDIT: This file is auto-generated from component specifications.">>,
       <<"//  Source: ">> \o <<sourceFile>>,
       <<"//  To make changes, update the component JSON files and regenerate.">>,
       <<"//">>,
       <<>> >>

\* createHeader(componentName, sourceFile), the date read from the clock
SwiftComponentGenerator_createHeader(componentName, sourceFile, date) ==
    << <<"//">>,
       <<"//  ">> \o <<componentName>> \o <<".swift">>,
       <<"//  CuppaUI">>,
       <<"//">>,
       <<"//  Generated from component specifications on ">> \o <<date>> \o <<".">>,
       <<"//  Copyright (c) 2025 MyCuppa. All rights reserved.">>,
       <<"//">>,
       <<"//  ">> \o <<componentName>> \o <<" component">>,
       <<"//">>,
       <<"//  [warn] DO NOT EDIT: This file is auto-generated from component specifications.">>,
       <<"//  Source: ">> \o <<sourceFile>>,
       <<"//  To make changes, update the component JSON files and regenerate.">>,
       <<"//">>,
       <<>> >>

\* truthiness of an optional string, number or boolean
TruthyString(opt) == opt # Undefined /\ opt[1] # ""
TruthyNumber(opt) == opt # Undefined /\ opt[1] # 0
IsRequired(prop) == prop.required = Some(TRUE)

\* prop.type.startsWith('Binding<')
IsBindingType(prop) == HasPrefix(prop.type, BindingOpen)

\* formatDefaultValue(value, type) for a string value
formatDefaultValue(value, type) ==
    IF type = <<"S", "t", "r", "i", "n", "g">> THEN <<"\"", value, "\"">>
    ELSE IF type = <<"B", "o", "o", "l">> THEN (IF value # "" THEN <<"true">> ELSE <<"false">>)
    ELSE IF type = <<"C", "o", "l", "o", "r">> THEN <<".", value>>
    ELSE <<value>>

\* generateExampleUsage(component)
generateExampleUsage(c) ==
    LET requiredProps == SelectSeq(c.properties, IsRequired)
        shown(p) == IF p.type = <<"S", "t", "r", "i", "n", "g">> THEN <<"\"", p.name, "\"">>
                    ELSE IF p.type = <<"B", "o", "o", "l">> THEN <<"true">>
                    ELSE IF p.type = <<"I", "n", "t">> \/ p.type = <<"D", "o", "u", "b", "l", "e">> THEN <<"0">>
                    ELSE <<p.name>>
        propsStr == IF requiredProps = <<>> THEN <<>> ELSE shown(requiredProps[1])
    IN  IF c.hasAsyncAction
        THEN << <<"/// ", c.name, "(">> \o propsStr \o <<") {">>,
                <<"///     // Handle action">>,
                <<"/// }">> >>
        ELSE << <<"/// ", c.name, "(">> \o propsStr \o <<")">> >>

\* the parameter of an initializer for one property
PropertyParam(prop) ==
    <<"        ", prop.name, ": ">>
        \o (IF IsBindingType(prop)
            THEN <<"Binding<">> \o TemplateText(prop.swiftType) \o <<">">>
            ELSE TemplateText(prop.swiftType))
        \o (IF ~IsRequired(prop) /\ prop.defaultValue # Undefined
            THEN <<" = ">> \o formatDefaultValue(prop.defaultValue[1], prop.type)
            ELSE <<>>)

PropertyParams(c) == [i \in 1..Len(c.properties) |-> PropertyParam(c.properties[i])]

\* the assignment of an initializer for one property
PropertyAssignments(c) ==
    [i \in 1..Len(c.properties) |->
        <<"        ", (IF IsBindingType(c.properties[i]) THEN "_" ELSE "self."),
          c.properties[i].name, " = ", c.properties[i].name>>]

\* `(params)[ async] -> returnType` of an action
ActionSignature(action) ==
    <<"(">> \o JoinWith([j \in 1..Len(action.parameters) |->
                            TemplateText(action.parameters[j].swiftType)], <<", ">>)
        \o <<")">>
        \o (IF action.isAsync THEN <<" async">> ELSE <<>>)
        \o (IF action.returnType # "Void" THEN <<" -> ", action.returnType>>
            ELSE <<" -> Void">>)

\* generateInitializer(component)
generateInitializer(c) ==
    LET params == PropertyParams(c)
                    \o [i \in 1..Len(c.actions) |->
                            <<"        ", c.actions[i].name, ": @escaping ">>
                                \o ActionSignature(c.actions[i])]
    IN  << <<"    public init(">> >>
        \o JoinLines(params, <<",">>)
        \o << <<"    ) {">> >>
        \o PropertyAssignments(c)
        \o [i \in 1..Len(c.actions) |->
                <<"        self.", c.actions[i].name, " = ", c.actions[i].name>>]
        \o << <<"    }">> >>

\* generateAsyncInitializer(component)
generateAsyncInitializer(c) ==
    LET params == Append(PropertyParams(c),
                         <<"        action: @escaping () async -> Void">>)
    IN  << <<"    /// Async action initializer">>,
           <<"    public init(">> >>
        \o JoinLines(params, <<",">>)
        \o << <<"    ) {">> >>
        \o PropertyAssignments(c)
        \o << <<"        self.action = action">>,
              <<"    }">> >>

\* generateSyncInitializer(component)
generateSyncInitializer(c) ==
    LET params == Append(PropertyParams(c),
                         <<"        action: @escaping () -> Void">>)
    IN  << <<"    /// Synchronous action initializer">>,
           <<"    public init(">> >>
        \o JoinLines(params, <<",">>)
        \o << <<"    ) {">> >>
        \o PropertyAssignments(c)
        \o << <<"        self.action = {">>,
              <<"            Task { action() }">>,
              <<"        }">>,
              <<"    }">> >>

\* generateStyling(component, indent); lines.join of no line is one empty line
generateStyling(c, indent) ==
    LET style == c.style
        lines ==
            (IF TruthyString(style.font)
             THEN << <<indent, ".font(.", style.font[1], ")">> >> ELSE <<>>)
            \o (IF TruthyString(style.fontWeight)
                THEN << <<indent, ".fontWeight(.", style.fontWeight[1], ")">> >>
                ELSE <<>>)
            \o (IF TruthyString(style.foregroundColor)
                THEN << <<indent, ".foregroundStyle(.", style.foregroundColor[1], ")">> >>
                ELSE <<>>)
            \o << <<indent, ".padding(.vertical, ">>
                    \o NatToString(style.padding.top) \o <<")">>,
                  <<indent, ".padding(.horizontal, ">>
                    \o NatToString(style.padding.leading) \o <<")">> >>
            \o (IF TruthyString(style.backgroundColor)
                THEN << <<indent, ".background(.", style.backgroundColor[1], ")">> >>
                ELSE <<>>)
            \o (IF TruthyNumber(style.cornerRadius)
                THEN << <<indent, ".clipShape(RoundedRectangle(cornerRadius: ">>
                            \o NatToString(style.cornerRadius[1]) \o <<"))">> >>
                ELSE <<>>)
            \o (IF TruthyString(style.borderColor) /\ TruthyNumber(style.borderWidth)
                THEN << <<indent, ".overlay(">>,
                        <<indent, "    RoundedRectangle(cornerRadius: ">>
                            \o NatToString(IF TruthyNumber(style.cornerRadius)
                                           THEN style.cornerRadius[1] ELSE 0)
                            \o <<")">>,
                        <<indent, "        .strokeBorder(.", style.borderColor[1],
                          ", lineWidth: ">>
                            \o NatToString(style.borderWidth[1]) \o <<")">>,
                        <<indent, ")">> >>
                ELSE <<>>)
            \o (IF TruthyString(style.maxWidth)
                THEN << <<indent, ".frame(maxWidth: .", style.maxWidth[1], ")">> >>
                ELSE <<>>)
            \o (IF TruthyNumber(style.minHeight)
                THEN << <<indent, ".frame(minHeight: ">>
                            \o NatToString(style.minHeight[1]) \o <<")">> >>
                ELSE <<>>)
    IN  IF lines = <<>> THEN << <<>> >> ELSE lines

\* component.properties.find(p => p.name === a || p.name === b)
FindNamed(properties, names) ==
    LET isNamed(p) == p.name \in names
        found == SelectSeq(properties, isNamed)
    IN  IF found = <<>> THEN Undefined ELSE Some(found[1])

\* generateBody(component)
generateBody(c) ==
    LET indent == "        "
        iconProp == FindNamed(c.properties, {"icon", "iconName"})
        titleProp == FindNamed(c.properties, {"title", "text"})
        messageProp == FindNamed(c.properties, {"message"})
        fading == <<indent, "            .opacity((isLoading || isPerformingAction) ? 0 : 1)">>
    IN  (IF Len(c.actions) > 0
         THEN << <<indent, "Button {">>,
                 (IF c.hasAsyncAction THEN <<indent, "    handleAction()">>
                  ELSE <<indent, "    ", c.actions[1].name, "()">>),
                 <<indent, "} label: {">> >>
         ELSE <<>>)
        \o (IF c.hasLoadingState
            THEN << <<indent, "    ZStack {">> >>
                 \o (IF iconProp # Undefined
                     THEN << <<indent, "        Image(systemName: ", iconProp[1].name, ")">>,
                             fading >>
                     ELSE IF titleProp # Undefined
                     THEN << <<indent, "        Text(", titleProp[1].name, ")">>,
                             fading >>
                     ELSE <<>>)
                 \o << <<>>,
                       <<indent, "        if isLoading || isPerformingAction {">>,
                       <<indent, "            ProgressView()">>,
                       <<indent, "                .progressViewStyle(CircularProgressViewStyle())">>,
                       <<indent, "        }">>,
                       <<indent, "    }">> >>
            ELSE IF iconProp # Undefined
            THEN << <<indent, "    Image(systemName: ", iconProp[1].name, ")">> >>
            ELSE IF messageProp # Undefined
            THEN << <<indent, "    Text(", messageProp[1].name, ")">> >>
            ELSE IF titleProp # Undefined
            THEN << <<indent, "    Text(", titleProp[1].name, ")">> >>
            ELSE <<>>)
        \o generateStyling(c, "            ")
        \o (IF Len(c.actions) > 0
            THEN << <<indent, "}">>, <<indent, ".buttonStyle(.plain)">> >>
            ELSE <<>>)
        \o (IF c.hasLoadingState
            THEN << <<indent, ".disabled(isLoading || isPerformingAction)">>,
                    <<indent, ".opacity((isLoading || isPerformingAction) ? 0.6 : 1.0)">> >>
            ELSE <<>>)

\* generateActionHandler(component)
generateActionHandler(c) ==
    << <<"    private func handleAction() {">>,
       <<"        Task {">>,
       <<"            isPerformingAction = true">>,
       <<"            await action()">>,
       <<"            isPerformingAction = false">>,
       <<"        }">>,
       <<"    }">> >>

\* the preview argument written for one property, none for a property the
\* chain of cases skips
PreviewParam(prop, c) ==
    LET named(v) == Some(<<prop.name, ": ">> \o v)
    IN  IF IsBindingType(prop)
        THEN (IF prop.swiftType = BareString(<<"B", "o", "o", "l">>) THEN named(<<"$previewBool">>)
              ELSE named(<<"$previewText">>))
        ELSE IF prop.name \in {"title", "text"} THEN named(<<"\"", c.name, "\"">>)
        ELSE IF prop.name = "message" THEN named(<<"\"This is a ", prop.name, "\"">>)
        ELSE IF prop.name = "type" THEN named(<<"\"info\"">>)
        ELSE IF prop.name = "status" THEN named(<<"\"success\"">>)
        ELSE IF prop.name \in {"icon", "iconName", "systemIcon"}
        THEN named(<<"\"star.fill\"">>)
        ELSE IF prop.name = "description" /\ prop.type = <<"S", "t", "r", "i", "n", "g">> /\ IsRequired(prop)
        THEN named(<<"\"Description text\"">>)
        ELSE IF prop.name = "label" /\ ~IsRequired(prop) THEN named(<<"\"Button\"">>)
        ELSE IF prop.name \in {"errorMessage", "subtitle", "description"}
        THEN named(<<"nil">>)
        ELSE IF prop.name = "options" /\ prop.swiftType.kind = "string"
                /\ HasPrefix(prop.swiftType.str, <<"[">>)
        THEN named(<<"[\"Option 1\", \"Option 2\", \"Option 3\"]">>)
        ELSE IF prop.type = <<"S", "t", "r", "i", "n", "g">> /\ IsRequired(prop)
        THEN named(<<"\"", prop.name, "\"">>)
        ELSE IF prop.type = <<"B", "o", "o", "l">> /\ IsRequired(prop) THEN named(<<"false">>)
        ELSE Undefined

\* generatePreview(component)
generatePreview(c) ==
    LET bindingProps == SelectSeq(c.properties, IsBindingType)
        hasStringBinding ==
            \E i \in 1..Len(bindingProps) : bindingProps[i].swiftType = BareString(<<"S", "t", "r", "i", "n", "g">>)
        hasBoolBinding ==
            \E i \in 1..Len(bindingProps) : bindingProps[i].swiftType = BareString(<<"B", "o", "o", "l">>)
        previewParams ==
            Join([i \in 1..Len(c.properties) |-> PreviewParam(c.properties[i], c)])
        call == <<"        ", c.name, "(">> \o JoinWith(previewParams, <<", ">>)
    IN  << <<"#Preview(\"", c.name, "\") {">> >>
        \o (IF hasStringBinding
            THEN << <<"    @Previewable @State var previewText = \"\"">> >> ELSE <<>>)
        \o (IF hasBoolBinding
            THEN << <<"    @Previewable @State var previewBool = false">> >> ELSE <<>>)
        \o << <<"    VStack(spacing: 20) {">> >>
        \o (IF c.hasAsyncAction
            THEN << call \o <<") {">>,
                    <<"            // Async action">>,
                    <<"        }">> >>
            ELSE IF Len(c.actions) > 0
            THEN << call \o <<") {">>,
                    <<"            print(\"Action triggered\")">>,
                    <<"        }">> >>
            ELSE << call \o <<")">> >>)
        \o << <<"    }">>, <<"    .padding()">>, <<"}">> >>

\* a slip in generate: the one plain initializer for every component
SwiftComponentGenerator_initializers_single(c) ==
    generateInitializer(c) \o << <<>> >>

\* generate, lines 68-77: the initializers, each followed by an empty line
SwiftComponentGenerator_initializers(c) ==
    IF c.hasAsyncAction
    THEN generateAsyncInitializer(c) \o << <<>> >>
            \o generateSyncInitializer(c) \o << <<>> >>
    ELSE generateInitializer(c) \o << <<>> >>

\* generate(component, sourceFile), the date read from the clock
SwiftComponentGenerator_generate(c, sourceFile, date) ==
    SwiftComponentGenerator_createHeader(c.name, sourceFile, date)
    \o << <<"import SwiftUI">> >>
    \o (IF c.category = "forms" \/ c.hasAsyncAction
        THEN << <<"import CuppaCore">> >> ELSE <<>>)
    \o << <<>>,
          <<"/// ", c.description>>,
          <<"///">>,
          <<"/// Features:">> >>
    \o (IF c.hasAsyncAction
        THEN << <<"/// - Async action support">>,
                <<"/// - Synchronous action support">> >>
        ELSE <<>>)
    \o (IF c.hasLoadingState
        THEN << <<"/// - Loading state with spinner">>,
                <<"/// - Automatic state management">> >>
        ELSE <<>>)
    \o Join([i \in 1..Len(c.properties) |->
                IF c.properties[i].description # c.properties[i].name
                THEN << <<"/// - ", c.properties[i].description>> >> ELSE <<>>])
    \o << <<"///">>,
          <<"/// Example:">>,
          <<"/// [fence]swift">> >>
    \o generateExampleUsage(c)
    \o << <<"/// [fence]">>,
          <<"public struct ", c.name, ": View {">>,
          <<"    // MARK: - Properties">>,
          <<>> >>
    \o [i \in 1..Len(c.properties) |->
            <<"    ", (IF IsBindingType(c.properties[i]) THEN "@Binding " ELSE ""),
              (IF IsBindingType(c.properties[i]) THEN "var" ELSE "let"), " ",
              c.properties[i].name, ": ">>
                \o TemplateText(c.properties[i].swiftType)]
    \o (IF c.hasAsyncAction
        THEN << <<"    @State private var isPerformingAction = false">> >> ELSE <<>>)
    \o [i \in 1..Len(c.actions) |->
            <<"    let ", c.actions[i].name, ": ">> \o ActionSignature(c.actions[i])]
    \o << <<>>,
          <<"    // MARK: - Initialization">>,
          <<>> >>
    \o SwiftComponentGenerator_initializers(c)
    \o << <<"    // MARK: - Body">>,
          <<>>,
          <<"    public var body: some View {">> >>
    \o generateBody(c)
    \o << <<"    }">> >>
    \o (IF c.hasAsyncAction
        THEN << <<>>, <<"    // MARK: - Actions">>, <<>> >> \o generateActionHandler(c)
        ELSE <<>>)
    \o << <<"}">>, <<>> >>
    \o generatePreview(c)

(***************************************************************************)
(* DesignTokensParser.parse as a whole, and the two theme generators.      *)
(* The token documents used here give no font a fallback list.             *)
(***************************************************************************)
\* the typography member of a theme: the five lists parseTypography returned
ThemeTypography(typography) ==
    [fontFamilies |-> typography.fontFamilies,
     fontSizes |-> typography.fontSizes,
     fontWeights |-> typography.fontWeights,
     lineHeights |-> typography.lineHeights,
     letterSpacing |-> typography.letterSpacing]

\* parse(tokens, name); the result of a parse that does not throw
DesignTokensParser_parse(doc, name) ==
    [name |-> name,
     colors |-> parseColors(OrElse(doc.colors, <<>>)).list,
     typography |-> ThemeTypography(parseTypography(OrElse(doc.typography, NoTypography))),
     spacing |-> parseSpacing(OrElse(doc.spacing, <<>>)).list,
     borderRadius |-> parseBorderRadius(OrElse(doc.borderRadius, <<>>)).list,
     shadows |-> parseShadows(OrElse(doc.shadows, <<>>)).list,
     breakpoints |-> parseBreakpoints(OrElse(doc.breakpoints, <<>>)).list]

\* `${v}` of a string or a number
ValueText(v) == IF v.kind = "string" THEN v.str ELSE NumberToString(v.num)

\* index === list.length - 1 ? '' : ','
CommaAt(list, i) == IF i = Len(list) THEN <<>> ELSE <<",">>

\* str.replace(/([a-z0-9])([A-Z])/g, '$1-$2')
RECURSIVE DashAfterLower(_)
DashAfterLower(str) ==
    IF Len(str) < 2 THEN str
    ELSE IF (\E i \in 1..Len(LowerLetters) : LowerLetters[i] = str[1]) \/ str[1] \in DigitSet
    THEN IF \E i \in 1..Len(UpperLetters) : UpperLetters[i] = str[2]
         THEN <<str[1], "-", str[2]>> \o DashAfterLower(Drop(str, 2))
         ELSE <<str[1]>> \o DashAfterLower(Tail(str))
    ELSE <<str[1]>> \o DashAfterLower(Tail(str))

\* str.replace(/([A-Z])([A-Z])(?=[a-z])/g, '$1-$2')
RECURSIVE DashInsideUpper(_)
DashInsideUpper(str) ==
    IF Len(str) < 3 THEN str
    ELSE IF /\ \E i \in 1..Len(UpperLetters) : UpperLetters[i] = str[1]
            /\ \E i \in 1..Len(UpperLetters) : UpperLetters[i] = str[2]
            /\ \E i \in 1..Len(LowerLetters) : LowerLetters[i] = str[3]
    THEN <<str[1], "-", str[2]>> \o DashInsideUpper(Drop(str, 2))
    ELSE <<str[1]>> \o DashInsideUpper(Tail(str))

\* toKebabCase(str): each call of the chain works on the finished string of
\* the call before it
toKebabCase(str) ==
    CHOOSE kebab \in {ToLowerCase(inside) :
                        inside \in {DashInsideUpper(after) :
                                       after \in {DashAfterLower(str)}}} : TRUE

\* TypeScriptThemeGenerator.createHeader(sourceFile), the date read from the
\* clock
TypeScriptThemeGenerator_createHeader(sourceFile, date) ==
    << <<"// Generated by cuppa-cli from ">> \o <<sourceFile>>,
       <<"// Generation date: ">> \o <<date>>,
       <<"// DO NOT EDIT MANUALLY - Changes will be overwritten">>,
       <<>> >>

TypeScriptThemeGenerator_hasTypography(t) ==
    \/ Len(t.typography.fontFamilies) > 0
    \/ Len(t.typography.fontSizes) > 0
    \/ Len(t.typography.fontWeights) > 0
    \/ Len(t.typography.lineHeights) > 0
    \/ Len(t.typography.letterSpacing) > 0

\* the entries of a colors or shadows group, a described one under its comment
DescribedEntries(list) ==
    Join([i \in 1..Len(list) |->
        (IF TruthyString(list[i].description)
         THEN << <<"    /** ", list[i].description[1], " */">> >> ELSE <<>>)
        \o << <<"    ">> \o list[i].name \o <<": '">> \o ValueText(list[i].value)
                \o <<"'">> \o CommaAt(list, i) >>])

\* the entries of a group of sizes
SizeEntries(list, indent) ==
    [i \in 1..Len(list) |->
        <<indent>> \o list[i].name \o <<": '">>
            \o FormatValue(list[i].value, list[i].unit) \o <<"'">> \o CommaAt(list, i)]

\* the CSS custom properties of a group
CSSVariables(list, prefix, group, lower) ==
    [i \in 1..Len(list) |->
        <<"    '--", prefix, "-">> \o toKebabCase(list[i].name) \o <<"': ">> \o lower
            \o <<".", group, ".">> \o list[i].name \o <<",">>]

\* TypeScriptThemeGenerator.generate(theme, sourceFile)
TypeScriptThemeGenerator_generate(t, sourceFile, date) ==
    LET lower == ToLowerCase(t.name)
        ty == t.typography
    IN  TypeScriptThemeGenerator_createHeader(sourceFile, date)
        \o << <<>>,
           <<"/**">>,
           <<" * Design system theme generated from ">> \o <<sourceFile>>,
           <<" */">>,
           <<"export const ">> \o lower \o <<" = {">> >>
        \o (IF Len(t.colors) > 0
            THEN << <<"  colors: {">> >> \o DescribedEntries(t.colors)
                    \o << <<"  },">>, <<>> >>
            ELSE <<>>)
        \o (IF TypeScriptThemeGenerator_hasTypography(t)
            THEN << <<"  typography: {">> >>
                 \o (IF Len(ty.fontFamilies) > 0
                     THEN << <<"    fontFamilies: {">> >>
                          \o [i \in 1..Len(ty.fontFamilies) |->
                                <<"      ">> \o ty.fontFamilies[i].name \o <<": '">>
                                    \o ValueText(ty.fontFamilies[i].value) \o <<"'">>
                                    \o CommaAt(ty.fontFamilies, i)]
                          \o << <<"    },">> >>
                     ELSE <<>>)
                 \o (IF Len(ty.fontSizes) > 0
                     THEN << <<"    fontSizes: {">> >> \o SizeEntries(ty.fontSizes, "      ")
                          \o << <<"    },">> >>
                     ELSE <<>>)
                 \o (IF Len(ty.fontWeights) > 0
                     THEN << <<"    fontWeights: {">> >>
                          \o [i \in 1..Len(ty.fontWeights) |->
                                <<"      ">> \o ty.fontWeights[i].name \o <<": ">>
                                    \o (IF ty.fontWeights[i].value.kind = "number"
                                        THEN NumberToString(ty.fontWeights[i].value.num)
                                        ELSE <<"'">> \o ty.fontWeights[i].value.str
                                                \o <<"'">>)
                                    \o CommaAt(ty.fontWeights, i)]
                          \o << <<"    },">> >>
                     ELSE <<>>)
                 \o (IF Len(ty.lineHeights) > 0
                     THEN << <<"    lineHeights: {">> >>
                          \o SizeEntries(ty.lineHeights, "      ") \o << <<"    },">> >>
                     ELSE <<>>)
                 \o (IF Len(ty.letterSpacing) > 0
                     THEN << <<"    letterSpacing: {">> >>
                          \o SizeEntries(ty.letterSpacing, "      ") \o << <<"    },">> >>
                     ELSE <<>>)
                 \o << <<"  },">>, <<>> >>
            ELSE <<>>)
        \o (IF Len(t.spacing) > 0
            THEN << <<"  spacing: {">> >> \o SizeEntries(t.spacing, "    ")
                    \o << <<"  },">>, <<>> >>
            ELSE <<>>)
        \o (IF Len(t.borderRadius) > 0
            THEN << <<"  borderRadius: {">> >> \o SizeEntries(t.borderRadius, "    ")
                    \o << <<"  },">>, <<>> >>
            ELSE <<>>)
        \o (IF Len(t.shadows) > 0
            THEN << <<"  shadows: {">> >> \o DescribedEntries(t.shadows)
                    \o << <<"  },">>, <<>> >>
            ELSE <<>>)
        \o (IF Len(t.breakpoints) > 0
            THEN << <<"  breakpoints: {">> >> \o SizeEntries(t.breakpoints, "    ")
                    \o << <<"  },">>, <<>> >>
            ELSE <<>>)
        \o << <<"} as const;">>,
           <<>>,
           <<"// TypeScript type definitions">>,
           <<"export type ">> \o t.name \o <<"Theme = typeof ">> \o lower \o <<";">>,
           <<>> >>
        \o (IF Len(t.colors) > 0
            THEN << <<"export type ColorToken = keyof ">> \o t.name
                        \o <<"Theme['colors'];">> >>
            ELSE <<>>)
        \o (IF Len(t.spacing) > 0
            THEN << <<"export type SpacingToken = keyof ">> \o t.name
                        \o <<"Theme['spacing'];">> >>
            ELSE <<>>)
        \o (IF Len(t.borderRadius) > 0
            THEN << <<"export type BorderRadiusToken = keyof ">> \o t.name
                        \o <<"Theme['borderRadius'];">> >>
            ELSE <<>>)
        \o << <<>>,
           <<"/**">>,
           <<" * Export theme as CSS custom properties">>,
           <<" */">>,
           <<"export function ">> \o lower \o <<"ToCSSVariables(): Record<string, string> {">>,
           <<"  return {">> >>
        \o CSSVariables(t.colors, "color", "colors", lower)
        \o CSSVariables(t.spacing, "spacing", "spacing", lower)
        \o CSSVariables(t.borderRadius, "border-radius", "borderRadius", lower)
        \o << <<"  };">>, <<"}">>, <<>> >>
        \o (IF Len(t.colors) > 0
            THEN << <<"/**">>,
                    <<" * React hook to inject theme CSS variables">>,
                    <<" */">>,
                    <<"export function use">> \o t.name \o <<"Theme() {">>,
                    <<"  if (typeof document !== 'undefined') {">>,
                    <<"    const vars = ">> \o lower \o <<"ToCSSVariables();">>,
                    <<"    Object.entries(vars).forEach(([key, value]) => {">>,
                    <<"      document.documentElement.style.setProperty(key, value);">>,
                    <<"    });">>,
                    <<"  }">>,
                    <<"}">>,
                    <<>> >>
            ELSE <<>>)

\* KotlinThemeGenerator.createHeader(sourceFile), the date read from the clock
KotlinThemeGenerator_createHeader(sourceFile, date) ==
    << <<"// Generated by cuppa-cli from ">> \o <<sourceFile>>,
       <<"// Generation date: ">> \o <<date>>,
       <<"// DO NOT EDIT MANUALLY - Changes will be overwritten">>,
       <<>> >>

KotlinThemeGenerator_hasTypography(t) ==
    \/ Len(t.typography.fontFamilies) > 0
    \/ Len(t.typography.fontSizes) > 0
    \/ Len(t.typography.fontWeights) > 0

\* KotlinThemeGenerator.KotlinThemeGenerator_capitalize(str)
KotlinThemeGenerator_capitalize(str) == IF str = <<>> THEN <<>> ELSE <<UpperChar(str[1])>> \o Tail(str)

\* hexColor.replace('#', ''): the first '#' removed
RECURSIVE RemoveFirstHash(_)
RemoveFirstHash(str) ==
    IF str = <<>> THEN <<>>
    ELSE IF Head(str) = "#" THEN Tail(str)
    ELSE <<Head(str)>> \o RemoveFirstHash(Tail(str))

\* convertToKotlinColor(hexColor)
convertToKotlinColor(hexColor) ==
    LET hex == RemoveFirstHash(hexColor)
    IN  <<"Color(0x">> \o ToUpperCase(IF Len(hex) = 6 THEN <<"F", "F">> \o hex ELSE hex)
            \o <<")">>

\* the keys of weightMap with their values
weightMap ==
    {[key |-> <<"t", "h", "i", "n">>, value |-> "FontWeight.Thin"],
     [key |-> <<"e", "x", "t", "r", "a", "l", "i", "g", "h", "t">>, value |-> "FontWeight.ExtraLight"],
     [key |-> <<"l", "i", "g", "h", "t">>, value |-> "FontWeight.Light"],
     [key |-> <<"n", "o", "r", "m", "a", "l">>, value |-> "FontWeight.Normal"],
     [key |-> <<"r", "e", "g", "u", "l", "a", "r">>, value |-> "FontWeight.Normal"],
     [key |-> <<"m", "e", "d", "i", "u", "m">>, value |-> "FontWeight.Medium"],
     [key |-> <<"s", "e", "m", "i", "b", "o", "l", "d">>, value |-> "FontWeight.SemiBold"],
     [key |-> <<"b", "o", "l", "d">>, value |-> "FontWeight.Bold"],
     [key |-> <<"e", "x", "t", "r", "a", "b", "o", "l", "d">>, value |-> "FontWeight.ExtraBold"],
     [key |-> <<"b", "l", "a", "c", "k">>, value |-> "FontWeight.Black"]}

\* convertToKotlinFontWeight(weight); weightMap is an object literal, so the
\* lookup also finds what Object.prototype has under the key
convertToKotlinFontWeight(weight) ==
    IF weight.kind = "number"
    THEN <<"FontWeight(">> \o NumberToString(weight.num) \o <<")">>
    ELSE LET key == ToLowerCase(weight.str)
         IN  IF \E e \in weightMap : e.key = key
             THEN <<(CHOOSE e \in weightMap : e.key = key).value>>
             ELSE IF \E e \in ObjectPrototype : e.key = key
             THEN TemplateText((CHOOSE e \in ObjectPrototype : e.key = key).value)
             ELSE <<"FontWeight.Normal">>

\* the keys of typographyMap, each mapped to itself
typographyMap ==
    <<<<"d", "i", "s", "p", "l", "a", "y", "L", "a", "r", "g", "e">>,
      <<"d", "i", "s", "p", "l", "a", "y", "M", "e", "d", "i", "u", "m">>,
      <<"d", "i", "s", "p", "l", "a", "y", "S", "m", "a", "l", "l">>,
      <<"h", "e", "a", "d", "l", "i", "n", "e", "L", "a", "r", "g", "e">>,
      <<"h", "e", "a", "d", "l", "i", "n", "e", "M", "e", "d", "i", "u", "m">>,
      <<"h", "e", "a", "d", "l", "i", "n", "e", "S", "m", "a", "l", "l">>,
      <<"t", "i", "t", "l", "e", "L", "a", "r", "g", "e">>,
      <<"t", "i", "t", "l", "e", "M", "e", "d", "i", "u", "m">>,
      <<"t", "i", "t", "l", "e", "S", "m", "a", "l", "l">>,
      <<"b", "o", "d", "y", "L", "a", "r", "g", "e">>,
      <<"b", "o", "d", "y", "M", "e", "d", "i", "u", "m">>,
      <<"b", "o", "d", "y", "S", "m", "a", "l", "l">>,
      <<"l", "a", "b", "e", "l", "L", "a", "r", "g", "e">>,
      <<"l", "a", "b", "e", "l", "M", "e", "d", "i", "u", "m">>,
      <<"l", "a", "b", "e", "l", "S", "m", "a", "l", "l">>>>

\* theme.typography.fontSizes.find(s => s.name.toLowerCase() === key.toLowerCase())
MatchingSize(fontSizes, key) ==
    LET matches(s) == ToLowerCase(s.name) = ToLowerCase(key)
        found == SelectSeq(fontSizes, matches)
    IN  IF found = <<>> THEN Undefined ELSE Some(found[1])

\* the entries of the Compose Typography, one per key that has a font size
TypographyEntries(t) ==
    Join([k \in 1..Len(typographyMap) |->
        IF MatchingSize(t.typography.fontSizes, typographyMap[k]) = Undefined THEN <<>>
        ELSE << <<"    ">> \o typographyMap[k] \o <<" = TextStyle(fontSize = ">>
                    \o t.name \o <<".FontSizes.">>
                    \o KotlinThemeGenerator_capitalize(MatchingSize(t.typography.fontSizes,
                                               typographyMap[k])[1].name)
                    \o <<")">> >>])

\* KotlinThemeGenerator.generate(theme, sourceFile)
KotlinThemeGenerator_generate(t, sourceFile, date) ==
    LET ty == t.typography
    IN  KotlinThemeGenerator_createHeader(sourceFile, date)
        \o << <<"import androidx.compose.ui.graphics.Color">>,
           <<"import androidx.compose.ui.unit.dp">>,
           <<"import androidx.compose.ui.unit.sp">>,
           <<"import androidx.compose.material3.Typography">>,
           <<"import androidx.compose.ui.text.TextStyle">>,
           <<"import androidx.compose.ui.text.font.FontWeight">>,
           <<>>,
           <<"/**">>,
           <<" * Design system theme generated from ">> \o <<sourceFile>>,
           <<" */">>,
           <<"object ">> \o t.name \o <<" {">>,
           <<>> >>
        \o (IF Len(t.colors) > 0
            THEN << <<"    // Colors">>, <<"    object Colors {">> >>
                 \o Join([i \in 1..Len(t.colors) |->
                        (IF TruthyString(t.colors[i].description)
                         THEN << <<"        /** ", t.colors[i].description[1], " */">> >>
                         ELSE <<>>)
                        \o << <<"        val ">> \o KotlinThemeGenerator_capitalize(t.colors[i].name)
                                \o <<" = ">>
                                \o convertToKotlinColor(ValueText(t.colors[i].value)) >>])
                 \o << <<"    }">>, <<>> >>
            ELSE <<>>)
        \o (IF KotlinThemeGenerator_hasTypography(t)
            THEN << <<"    // Typography">> >>
                 \o (IF Len(ty.fontFamilies) > 0
                     THEN << <<"    object FontFamilies {">> >>
                          \o [i \in 1..Len(ty.fontFamilies) |->
                                <<"        const val ">>
                                    \o KotlinThemeGenerator_capitalize(ty.fontFamilies[i].name) \o <<" = \"">>
                                    \o ValueText(ty.fontFamilies[i].value) \o <<"\"">>]
                          \o << <<"    }">>, <<>> >>
                     ELSE <<>>)
                 \o (IF Len(ty.fontSizes) > 0
                     THEN << <<"    object FontSizes {">> >>
                          \o [i \in 1..Len(ty.fontSizes) |->
                                <<"        val ">> \o KotlinThemeGenerator_capitalize(ty.fontSizes[i].name)
                                    \o <<" = ">> \o NumberToString(ty.fontSizes[i].value)
                                    \o <<".sp">>]
                          \o << <<"    }">>, <<>> >>
                     ELSE <<>>)
                 \o (IF Len(ty.fontWeights) > 0
                     THEN << <<"    object FontWeights {">> >>
                          \o [i \in 1..Len(ty.fontWeights) |->
                                <<"        val ">> \o KotlinThemeGenerator_capitalize(ty.fontWeights[i].name)
                                    \o <<" = ">>
                                    \o convertToKotlinFontWeight(ty.fontWeights[i].value)]
                          \o << <<"    }">>, <<>> >>
                     ELSE <<>>)
            ELSE <<>>)
        \o (IF Len(t.spacing) > 0
            THEN << <<"    // Spacing">>, <<"    object Spacing {">> >>
                 \o [i \in 1..Len(t.spacing) |->
                        <<"        val ">> \o KotlinThemeGenerator_capitalize(t.spacing[i].name) \o <<" = ">>
                            \o NumberToString(t.spacing[i].value) \o <<".dp">>]
                 \o << <<"    }">>, <<>> >>
            ELSE <<>>)
        \o (IF Len(t.borderRadius) > 0
            THEN << <<"    // Border Radius">>, <<"    object BorderRadius {">> >>
                 \o [i \in 1..Len(t.borderRadius) |->
                        <<"        val ">> \o KotlinThemeGenerator_capitalize(t.borderRadius[i].name)
                            \o <<" = ">> \o NumberToString(t.borderRadius[i].value)
                            \o <<".dp">>]
                 \o << <<"    }">>, <<>> >>
            ELSE <<>>)
        \o (IF Len(t.shadows) > 0
            THEN << <<"    // Shadows">>, <<"    object Shadows {">> >>
                 \o Join([i \in 1..Len(t.shadows) |->
                        (IF TruthyString(t.shadows[i].description)
                         THEN << <<"        /** ", t.shadows[i].description[1], " */">> >>
                         ELSE <<>>)
                        \o << <<"        const val ">> \o KotlinThemeGenerator_capitalize(t.shadows[i].name)
                                \o <<" = \"">> \o ValueText(t.shadows[i].value)
                                \o <<"\"">> >>])
                 \o << <<"    }">>, <<>> >>
            ELSE <<>>)
        \o << <<"}">>, <<>> >>
        \o (IF Len(ty.fontSizes) > 0
            THEN << <<"/**">>,
                    <<" * Material 3 Typography configuration">>,
                    <<" */">>,
                    <<"val ">> \o t.name \o <<"Typography = Typography(">> >>
                 \o (IF TypographyEntries(t) # <<>>
                     THEN JoinLines(TypographyEntries(t), <<",">>) ELSE <<>>)
                 \o << <<")">>, <<>> >>
            ELSE <<>>)

\* ---- SwiftComponentGenerator.generate after ComponentSpecParser.parse ----
\* the labels a component spec file can have
ComponentLabels == {"IconButton.json", "components/Button.json"}

\* the ParsedComponent that parse returned
ParsedComponentOf(r) ==
    [name |-> r.name, category |-> r.category, description |-> r.description,
     properties |-> r.parsed.properties, style |-> r.parsed.style,
     states |-> r.parsed.states, actions |-> r.parsed.actions,
     slots |-> r.parsed.slots, hasAsyncAction |-> r.parsed.hasAsyncAction,
     hasLoadingState |-> r.parsed.hasLoadingState]

\* generator.generate(parsed, sourceFile)
GenerateComponent ==
    /\ compPc = "done"
    /\ \E sourceFile \in ComponentLabels :
        compText' = SwiftComponentGenerator_generate(ParsedComponentOf(compResult[1]),
                                                     sourceFile, today)
    /\ compPc' = "generated"
    /\ UNCHANGED <<compSpec, component, compResult>>
    /\ UNCHANGED OtherThanComponent

ComponentNext ==
    \/ ParseActions
    \/ ParseComponentProperties
    \/ ParseStyle
    \/ ParseStates
    \/ ParseSlotsReturn
    \/ GenerateComponent

(***************************************************************************)
(* Two calls of the generators.  The generator classes have no fields and  *)
(* the modules no variables: a call reads its two arguments and the clock. *)
(***************************************************************************)
\* token documents for the theme generators
GeneratorTokens ==
    [colors |->
        Some(<<[name |-> <<"p", "r", "i", "m", "a", "r", "y">>,
                value |-> TokenObject(BareString(<<"#", "f", "f", "5", "7", "3", "3">>), Some("Brand color"))],
               [name |-> <<"t", "e", "x", "t", "-", "m", "u", "t", "e", "d">>, value |-> BareString(<<"#", "8", "0", "0", "0", "0", "0", "0", "0">>)]>>),
     typography |->
        Some([fontFamilies |-> Some(<<[name |-> <<"b", "o", "d", "y">>, value |-> BareString(<<"I", "n", "t", "e", "r">>)]>>),
              fontSizes |->
                Some(<<[name |-> <<"b", "o", "d", "y", "-", "l", "a", "r", "g", "e">>,
                        value |-> BareNumber(Number(FALSE, 16, <<>>))],
                       [name |-> <<"s", "m">>, value |-> BareString(<<"1", "2", "p", "x">>)]>>),
              fontWeights |->
                Some(<<[name |-> <<"s", "t", "r", "o", "n", "g">>, value |-> BareString(<<"B", "o", "l", "d">>)],
                       [name |-> <<"h", "e", "a", "v", "y">>, value |-> BareNumber(Number(FALSE, 700, <<>>))],
                       [name |-> <<"o", "d", "d">>, value |-> BareString(<<"c", "o", "n", "s", "t", "r", "u", "c", "t", "o", "r">>)]>>),
              lineHeights |->
                Some(<<[name |-> <<"t", "i", "g", "h", "t">>,
                        value |-> BareNumber(Number(FALSE, 1, <<"5">>))]>>),
              letterSpacing |-> Undefined]),
     spacing |->
        Some(<<[name |-> <<"s", "m">>, value |-> BareString(<<"8", "p", "x">>)],
               [name |-> <<"x", "-", "l">>, value |-> BareString(<<"1", ".", "5", "r", "e", "m">>)]>>),
     borderRadius |-> Some(<<[name |-> <<"c", "a", "r", "d", "X", "L">>, value |-> BareString(<<"4", "p", "x">>)]>>),
     shadows |->
        Some(<<[name |-> <<"c", "a", "r", "d">>,
                value |-> TokenObject(BareString(<<"0", " ", "1", "p", "x", " ", "2", "p", "x">>), Some("Resting"))]>>),
     breakpoints |->
        Some(<<[name |-> <<"t", "a", "b", "l", "e", "t">>, value |-> BareNumber(Number(FALSE, 768, <<>>))]>>)]

GeneratorTokenDocs ==
    {GeneratorTokens,
     DocWith("none", <<>>),
     DocWith("spacing", <<[name |-> <<"s", "m">>, value |-> BareString(<<"8", "p", "x">>)]>>),
     DocWith("colors", <<[name |-> <<"p", "r", "i", "m", "a", "r", "y">>, value |-> BareString(<<"#", "F", "F", "5", "7", "3", "3">>)]>>)}

ThemeNames == {<<"T", "h", "e", "m", "e">>}

ThemeLabels == {"tokens.json", "design/brand.json"}

\* what the parsers hand to the generators
ParsedThemes ==
    {DesignTokensParser_parse(d, n) : d \in GeneratorTokenDocs, n \in ThemeNames}

ParsedComponents == {ComponentSpecParser_parse(s) : s \in GeneratorSpecs \cup {BaseSpec}}

NoCall == [generator |-> "none", label |-> "", date |-> "", text |-> <<>>]

GenerateIdle ==
    /\ genPc = "idle"
    /\ firstCall = NoCall
    /\ secondCall = NoCall

GenerateStart ==
    /\ genPc = "first"
    /\ firstCall = NoCall
    /\ secondCall = NoCall

\* after a call returns, the next one
AfterCall == IF genPc = "first" THEN "second" ELSE "done"

\* the call is the first or the second of the two
Recorded(call) ==
    IF genPc = "first"
    THEN firstCall' = call /\ UNCHANGED secondCall
    ELSE secondCall' = call /\ UNCHANGED firstCall

\* new SwiftComponentGenerator().generate(component, sourceFile)
CallSwiftComponentGenerator ==
    /\ genPc \in {"first", "second"}
    /\ \E c \in ParsedComponents, sourceFile \in ComponentLabels :
        Recorded([generator |-> "SwiftComponentGenerator", component |-> c,
                  label |-> sourceFile, date |-> today,
                  text |-> SwiftComponentGenerator_generate(c, sourceFile, today)])
    /\ genPc' = AfterCall
    /\ UNCHANGED today
    /\ UNCHANGED OtherThanGenerate

\* new TypeScriptThemeGenerator().generate(theme, sourceFile)
CallTypeScriptThemeGenerator ==
    /\ genPc \in {"first", "second"}
    /\ \E t \in ParsedThemes, sourceFile \in ThemeLabels :
        Recorded([generator |-> "TypeScriptThemeGenerator", theme |-> t,
                  label |-> sourceFile, date |-> today,
                  text |-> TypeScriptThemeGenerator_generate(t, sourceFile, today)])
    /\ genPc' = AfterCall
    /\ UNCHANGED today
    /\ UNCHANGED OtherThanGenerate

\* new KotlinThemeGenerator().generate(theme, sourceFile)
CallKotlinThemeGenerator ==
    /\ genPc \in {"first", "second"}
    /\ \E t \in ParsedThemes, sourceFile \in ThemeLabels :
        Recorded([generator |-> "KotlinThemeGenerator", theme |-> t,
                  label |-> sourceFile, date |-> today,
                  text |-> KotlinThemeGenerator_generate(t, sourceFile, today)])
    /\ genPc' = AfterCall
    /\ UNCHANGED today
    /\ UNCHANGED OtherThanGenerate

GenerateNext ==
    \/ Tick
    \/ CallSwiftComponentGenerator
    \/ CallTypeScriptThemeGenerator
    \/ CallKotlinThemeGenerator

(***************************************************************************)
(* C19: two calls of one generator on one representation and one label.    *)
(***************************************************************************)
\* the header line that carries the generation date
DateLine(generator) == IF generator = "SwiftComponentGenerator" THEN 5 ELSE 2

\* both calls went to one generator with one representation and one label
SameRequest ==
    /\ firstCall.generator = secondCall.generator
    /\ firstCall.label = secondCall.label
    /\ IF firstCall.generator = "SwiftComponentGenerator"
       THEN firstCall.component = secondCall.component
       ELSE firstCall.theme = secondCall.theme

\* C19: two calls of the same generator on the same representation and label
\* return texts of the same number of lines that agree on every line other
\* than the header line carrying the generation date, and agree on that line
\* too when both calls ran on the same date; the call made earlier leaves no
\* trace in the later one
C19_DeterministicModuloDate ==
    (genPc = "done" /\ SameRequest) =>
        /\ Len(firstCall.text) = Len(secondCall.text)
        /\ \A i \in 1..Len(firstCall.text) :
              i # DateLine(firstCall.generator) =>
                  firstCall.text[i] = secondCall.text[i]
        /\ firstCall.date = secondCall.date => firstCall.text = secondCall.text

\* C19: the same request was served on two dates and the two texts differ,
\* in the date line
C19_Witness ==
    /\ genPc = "done"
    /\ SameRequest
    /\ firstCall.date # secondCall.date
    /\ firstCall.text # secondCall.text
    /\ firstCall.text[DateLine(firstCall.generator)]
          # secondCall.text[DateLine(firstCall.generator)]

(***************************************************************************)
(* C20: the initializers SwiftComponentGenerator emits.                    *)
(***************************************************************************)
\* the lines of the generated text that open an initializer
InitializerLines == {i \in 1..Len(compText) : compText[i] = <<"    public init(">>}

\* the generated text has the line
HasLine(line) == \E i \in 1..Len(compText) : compText[i] = line

\* the spec declares one action, of type "async"
OneAsyncAction ==
    /\ compSpec.actions # Undefined
    /\ Len(compSpec.actions[1]) = 1
    /\ compSpec.actions[1][1].type = "async"

\* C20: the text generated for a component with hasAsyncAction has exactly
\* two initializers, one taking `action` as an async closure and one taking
\* it as a synchronous closure that it runs inside a Task; the text for any
\* other component has exactly one initializer; a spec with one action of
\* type "async" has hasAsyncAction set and gets the two initializers
C20_InitializerVariants ==
    compPc = "generated" =>
        /\ IF compResult[1].parsed.hasAsyncAction
           THEN /\ Cardinality(InitializerLines) = 2
                /\ HasLine(<<"    /// Async action initializer">>)
                /\ HasLine(<<"        action: @escaping () async -> Void">>)
                /\ HasLine(<<"    /// Synchronous action initializer">>)
                /\ HasLine(<<"        action: @escaping () -> Void">>)
                /\ HasLine(<<"            Task { action() }">>)
           ELSE Cardinality(InitializerLines) = 1
        /\ OneAsyncAction =>
              /\ compResult[1].parsed.hasAsyncAction
              /\ Cardinality(InitializerLines) = 2

\* C20: a spec whose one action is of type "async" was generated, with two
\* initializers in the text
C20_Witness ==
    /\ compPc = "generated"
    /\ OneAsyncAction
    /\ compResult[1].parsed.hasAsyncAction
    /\ Cardinality(InitializerLines) = 2

(***************************************************************************)
(* C21: the provenance header of the generated source files.               *)
(***************************************************************************)
\* the lines by which a generator marks its output as not to be edited
DoNotEditMarkers ==
    {<<"//  [warn] DO NOT EDIT: This file is auto-generated from component specifications.">>,
     <<"// DO NOT EDIT MANUALLY - Changes will be overwritten">>}

\* the header of a text: its lines before the first empty one
HeaderLines(text) ==
    {text[i] : i \in {j \in 1..Len(text) : \A k \in 1..j : text[k] # <<>>}}

\* some line of the set carries a generation date
HasDate(lines) ==
    \E l \in lines : \E j \in 1..Len(l) : \E d \in 1..Len(Dates) : l[j] = Dates[d]

\* some line of the set carries the label
HasLabel(lines, label) == \E l \in lines : \E j \in 1..Len(l) : l[j] = label

HasDoNotEdit(lines) == lines \cap DoNotEditMarkers # {}

\* the Swift files generatePlugin has put into its Map
SwiftFileKeys == {k \in FileKeys : k[Len(k)] = ".swift"}

\* what a generator call of the two-call run returned has the full header
FullHeader(call) ==
    call.generator # "none" =>
        /\ HasLabel(HeaderLines(call.text), call.label)
        /\ HasDate(HeaderLines(call.text))
        /\ HasDoNotEdit(HeaderLines(call.text))

\* C21: every generated source file starts with a header that carries the
\* generation date and a do-not-edit marker, and, for the generators that are
\* given one, the name of the source file; this for each Swift file of the
\* plugin generator and for the texts of the component and theme generators
C21_ProvenanceHeader ==
    /\ \A k \in SwiftFileKeys :
          /\ HasDate(HeaderLines(FileText(k)))
          /\ HasDoNotEdit(HeaderLines(FileText(k)))
    /\ FullHeader(firstCall)
    /\ FullHeader(secondCall)

(***************************************************************************)
(* C28, C29: what the generated struct declares and what it uses.          *)
(***************************************************************************)
\* the lines of the initializer opened at line i, up to the line closing it
InitializerBody(i) ==
    LET end == CHOOSE j \in i..Len(compText) :
                    /\ compText[j] = <<"    }">>
                    /\ \A k \in i..(j - 1) : compText[k] # <<"    }">>
    IN  {compText[j] : j \in i..end}

\* the lines assign the stored property of the name
AssignsAction(lines, name) ==
    \/ <<"        self.", name, " = ", name>> \in lines
    \/ /\ name = "action"
       /\ \/ <<"        self.action = action">> \in lines
          \/ <<"        self.action = {">> \in lines

\* the struct declares the stored property of the action
DeclaresAction(action) ==
    HasLine(<<"    let ", action.name, ": ">> \o ActionSignature(action))

\* C28: in the text generated for a component, every action has its stored
\* property `let <name>: ...` declared, and every initializer of the text
\* assigns the stored property of every action
C28_ActionsAssigned ==
    compPc = "generated" =>
        \A a \in 1..Len(compResult[1].parsed.actions) :
            /\ DeclaresAction(compResult[1].parsed.actions[a])
            /\ \A i \in InitializerLines :
                  AssignsAction(InitializerBody(i), compResult[1].parsed.actions[a].name)

\* the lines of the body that read isPerformingAction
PerformingActionUses ==
    {"            .opacity((isLoading || isPerformingAction) ? 0 : 1)",
     "        if isLoading || isPerformingAction {",
     ".disabled(isLoading || isPerformingAction)",
     ".opacity((isLoading || isPerformingAction) ? 0.6 : 1.0)"}

\* the text has a line whose last piece is one of the given ones
HasLineEnding(pieces) ==
    \E i \in 1..Len(compText) :
        compText[i] # <<>> /\ compText[i][Len(compText[i])] \in pieces

\* C29: the generated text reads `isPerformingAction` only if the struct
\* declares it as a state variable, and calls `handleAction()` only if the
\* struct declares that function
C29_ReferencesDeclared ==
    compPc = "generated" =>
        /\ HasLineEnding(PerformingActionUses) =>
              HasLine(<<"    @State private var isPerformingAction = false">>)
        /\ HasLineEnding({"    handleAction()"}) =>
              HasLine(<<"    private func handleAction() {">>)

(***************************************************************************)
(* The commands: generate, component, plugin, init                         *)
(*                                                                         *)
(* A path is a sequence of segments below process.cwd(); a segment is a    *)
(* sequence of pieces, so that a name taken apart into characters can be   *)
(* a directory or a part of a file name.                                   *)
(***************************************************************************)
Dir(names) == [i \in 1..Len(names) |-> <<names[i]>>]

\* the file the command line names is absent, is not JSON, or is refused by
\* the parser
UnreadableStates == {"malformed", "rejected"}

\* the schema files a source directory holds, at most
MaxSchemaFiles == 2

SchemaNames == <<<<"U", "s", "e", "r">>, <<"O", "r", "d", "e", "r">>, <<"I", "t", "e", "m">>, <<"C", "a", "r", "t">>>>

\* fs-extra ensureDir: the directory and every missing ancestor
ensureDir(dirs, dirPath) ==
    dirs \cup {SubSeq(dirPath, 1, n) : n \in 1..Len(dirPath)}

\* path.dirname
dirname(filePath) == SubSeq(filePath, 1, Len(filePath) - 1)

\* fs.pathExists, for the path of a file
pathExists(fsys, filePath) == \E f \in fsys : f.path = filePath

\* fs.writeFile: the file is created, or its content replaced
fs_writeFile(fsys, filePath, content) ==
    {f \in fsys : f.path # filePath} \cup {[path |-> filePath, content |-> content]}

\* what a file holds: the code a generator class returned for a source, or
\* something the user wrote
Code(generator, source) == [generator |-> generator, source |-> source]
UserContent == Code(<<"user">>, <<>>)

\* commander's option object for the command line.  A flag is true when it
\* is given.  `--no-git` is a negatable option: it defines the option `git`,
\* true unless the flag is given; no option named noGit is ever set.
options ==
    [from      |-> cliOpts.from,
     platform  |-> cliOpts.platform,
     output    |-> cliOpts.output,
     overwrite |-> "--overwrite" \in cliOpts.flags,
     dryRun    |-> "--dry-run" \in cliOpts.flags,
     git       |-> "--no-git" \notin cliOpts.flags,
     noGit     |-> Undefined]

determinePlatforms(requestedPlatform, config) ==
    IF requestedPlatform # Undefined
    THEN IF requestedPlatform[1] = "all"
         THEN OrElse(config.platforms, <<>>)
         ELSE <<requestedPlatform[1]>>
    ELSE OrElse(config.platforms, <<>>)

determineOutputDir(platform, requestedOutput) ==
    IF requestedOutput # Undefined THEN requestedOutput[1]
    ELSE CASE platform = "ios" -> Dir(<<"iOS", "Sources", "Models">>)
           [] platform = "android" -> Dir(<<"Android", "src", "main", "kotlin", "models">>)
           [] platform = "web" -> Dir(<<"Web", "src", "models">>)
           [] OTHER -> Dir(<<"generated", platform>>)

determineAPIOutputDir(platform, requestedOutput) ==
    IF requestedOutput # Undefined THEN requestedOutput[1]
    ELSE CASE platform = "ios" -> Dir(<<"iOS", "Sources", "API">>)
           [] platform = "android" -> Dir(<<"Android", "src", "main", "kotlin", "api">>)
           [] platform = "web" -> Dir(<<"Web", "src", "api">>)
           [] OTHER -> Dir(<<"generated", platform, "api">>)

determineThemeOutputDir(platform, requestedOutput) ==
    IF requestedOutput # Undefined THEN requestedOutput[1]
    ELSE CASE platform = "ios" -> Dir(<<"iOS", "Sources", "Theme">>)
           [] platform = "android" -> Dir(<<"Android", "src", "main", "kotlin", "theme">>)
           [] platform = "web" -> Dir(<<"Web", "src", "theme">>)
           [] OTHER -> Dir(<<"generated", platform, "theme">>)

\* the output directory of the generator function for `type`
OutputDir(type, platform, requestedOutput) ==
    CASE type = "model" -> determineOutputDir(platform, requestedOutput)
      [] type = "api-client" -> determineAPIOutputDir(platform, requestedOutput)
      [] OTHER -> determineThemeOutputDir(platform, requestedOutput)

\* the platforms the three generator functions have a `case` for
GeneratePlatforms == {"ios", "android", "web"}

\* generateTheme: config.name with its first letter in upper case, or AppTheme
themeName(config) ==
    IF config.name # Undefined /\ config.name[1] # <<>>
    THEN <<UpperChar(config.name[1][1])>> \o Tail(config.name[1])
    ELSE <<"A", "p", "p", "T", "h", "e", "m", "e">>

\* the name the parsed source goes by: parsedModel.name, parsedAPI.name,
\* parsedTheme.name
ParsedName(type, source, config) ==
    IF type = "theme" THEN themeName(config) ELSE source.name

\* the `fileName` each `case` of the platform switch sets
FileName(type, platform, name) ==
    LET extension ==
            CASE platform = "ios" -> ".swift"
              [] platform = "android" -> ".kt"
              [] OTHER -> ".ts"
    IN  CASE type = "model" -> name \o <<extension>>
          [] type = "api-client" -> name \o <<"APIClient", extension>>
          [] OTHER ->
               IF platform = "web" THEN ToLowerCase(name) \o <<extension>>
               ELSE name \o <<extension>>

\* the generator class each `case` of the platform switch picks
GeneratorClass(type, platform) ==
    <<CASE platform = "ios" -> "Swift"
        [] platform = "android" -> "Kotlin"
        [] OTHER -> "TypeScript",
      CASE type = "model" -> "ModelGenerator"
        [] type = "api-client" -> "APIClientGenerator"
        [] OTHER -> "ThemeGenerator">>

\* path.join(outputDir, fileName)
OutputPath(type, platform, name, requestedOutput) ==
    OutputDir(type, platform, requestedOutput) \o <<FileName(type, platform, name)>>

\* ---- the command lines and what they find ----
CommandLine(command, type, name, platform, platforms, output, from, flags) ==
    [command |-> command, type |-> type, name |-> name, platform |-> platform,
     platforms |-> platforms, output |-> output, from |-> from, flags |-> flags]

Surroundings(config, sources, existing, unwritable, git) ==
    [config |-> config, sources |-> sources, existing |-> existing,
     unwritable |-> unwritable, git |-> git]

\* --platform: absent, all, a platform with generators, or any other word
PlatformOptions == {Undefined, Some("all"), Some("ios"), Some("android"), Some("desktop")}

\* --output: absent, or a directory
Outputs == {Undefined, Some(Dir(<<"out">>))}

\* cuppa.config.json as createCuppaConfig writes it, for a list of platforms
CuppaConfig(platforms) ==
    [name |-> Some(<<"s", "h", "o", "p">>), platforms |-> Some(platforms), source |-> TRUE]

\* a cuppa.config.json holding none of the optional parts
BareConfig == [name |-> Undefined, platforms |-> Undefined, source |-> FALSE]

ConfigPlatforms ==
    {<<"ios", "web">>, <<"ios", "android", "web">>, <<"ios", "desktop", "web">>}

\* cuppa.config.json: absent, written by init, or bare
Configs ==
    {Undefined, Some(BareConfig)} \cup {Some(CuppaConfig(p)) : p \in ConfigPlatforms}

\* n schema files that read and parse
ReadableSchemas(n) == [i \in 1..n |-> [name |-> SchemaNames[i], state |-> "ok"]]

\* the .json files of the models source: none, some that all read and parse,
\* or some of which one does not
OneUnreadable(n) ==
    {[ReadableSchemas(n) EXCEPT ![k].state = bad] : k \in 1..n, bad \in UnreadableStates}

SchemaFiles ==
    {ReadableSchemas(n) : n \in 0..MaxSchemaFiles}
    \cup UNION {OneUnreadable(n) : n \in 1..MaxSchemaFiles}

\* the one source file of an API client, a theme or a component
SingleSources ==
    {<<[name |-> <<"S", "h", "o", "p">>, state |-> state]>> :
        state \in {"ok", "missing"} \cup UnreadableStates}

\* the platforms whose output file exists before the run, and those whose
\* output file cannot be written
Disks ==
    {[existing |-> {}, unwritable |-> {}],
     [existing |-> {"ios"}, unwritable |-> {}],
     [existing |-> {"ios", "web"}, unwritable |-> {}],
     [existing |-> {}, unwritable |-> {"web"}],
     [existing |-> {"ios"}, unwritable |-> {"ios"}]}

\* ---- the state a command starts in ----
\* getDefaultOutputPath of the component command, outside cuppa-ios-v2
getDefaultOutputPath(platform, category) ==
    CASE platform = "ios" ->
           Dir(<<"iOS", "Sources", "CuppaUI", "Generated">>)
               \o << <<UpperChar(category[1])>> \o Tail(category) >>
      [] platform = "android" ->
           Dir(<<"Android", "src", "main", "kotlin", "ui", "components">>) \o <<category>>
      [] platform = "web" -> Dir(<<"Web", "src", "components">>) \o <<category>>
      [] OTHER -> Dir(<<"generated", "components">>) \o <<category>>

\* the component command: the name of the component, from the file --from
\* names or from the command line, and the file it is written to
ComponentName(opts, env) == IF opts.from THEN env.sources[1].name ELSE opts.name

ComponentPath(opts, env) ==
    (IF opts.output # Undefined THEN opts.output[1]
     ELSE getDefaultOutputPath(OrElse(opts.platform, "ios"), <<"c", "o", "m", "p", "o", "n", "e", "n", "t", "s">>))
        \o <<ComponentName(opts, env) \o <<".swift">>>>

\* the output files that exist before the command runs
StartFiles(opts, env) ==
    CASE opts.command = "generate" /\ env.config # Undefined /\ env.sources # <<>> ->
           {[path |-> OutputPath(opts.type, p,
                                 ParsedName(opts.type, env.sources[1], env.config[1]),
                                 opts.output),
             content |-> UserContent] : p \in env.existing}
      [] opts.command = "component" /\ env.existing # {} ->
           {[path |-> ComponentPath(opts, env), content |-> UserContent]}
      [] OTHER -> {}

StartDirs(startFiles) == UNION {ensureDir({}, dirname(f.path)) : f \in startFiles}

\* no command runs
CommandIdle ==
    /\ cliOpts = CommandLine("none", "", <<>>, Undefined, <<>>, Undefined, FALSE, {})
    /\ cliEnv = Surroundings(Undefined, <<>>, {}, {}, "ok")
    /\ cliPc = "idle" /\ srcIdx = 0 /\ platIdx = 0
    /\ fsDirs = {} /\ fsFiles = {} /\ fsStart = [dirs |-> {}, files |-> {}]
    /\ generatedCount = 0 /\ reported = Undefined /\ cliLog = <<>>
    /\ exitCode = Undefined /\ written = <<>> /\ subprocesses = <<>>

StartedWith(opts, env, startFiles) ==
    /\ cliOpts = opts /\ cliEnv = env
    /\ cliPc = "start" /\ srcIdx = 0 /\ platIdx = 0
    /\ fsFiles = startFiles /\ fsDirs = StartDirs(startFiles)
    /\ fsStart = [dirs |-> StartDirs(startFiles), files |-> startFiles]
    /\ generatedCount = 0 /\ reported = Undefined /\ cliLog = <<>>
    /\ exitCode = Undefined /\ written = <<>> /\ subprocesses = <<>>

\* generate <type>; --from is given where the configuration names no source
GenerateStarts ==
    \E type \in {"model", "api-client", "theme"}, from \in BOOLEAN,
       platform \in PlatformOptions, output \in Outputs,
       flags \in SUBSET {"--overwrite", "--dry-run"}, disk \in Disks :
        \E config \in IF from THEN {Some(BareConfig)} ELSE Configs,
           sources \in IF type = "model" THEN SchemaFiles ELSE SingleSources :
            LET opts == CommandLine("generate", type, <<>>, platform, <<>>, output,
                                    from, flags)
                env == Surroundings(config, sources, disk.existing, disk.unwritable, "ok")
            IN  StartedWith(opts, env, StartFiles(opts, env))

\* generate with a type that is none of the three
UnknownTypeStarts ==
    StartedWith(CommandLine("generate", "widget", <<>>, Undefined, <<>>, Undefined,
                            FALSE, {}),
                Surroundings(Some(CuppaConfig(<<"ios", "web">>)), <<>>, {}, {}, "ok"),
                {})

ComponentStarts ==
    \E name \in {<<>>, <<"C", "a", "r", "d">>}, platform \in {Undefined, Some("ios"), Some("android")},
       output \in Outputs, from \in BOOLEAN, sources \in SingleSources,
       disk \in {d \in Disks : d.existing \subseteq {"ios"}} :
        LET opts == CommandLine("component", "", name, platform, <<>>, output, from, {})
            env == Surroundings(Undefined, sources, disk.existing, disk.unwritable, "ok")
        IN  StartedWith(opts, env, StartFiles(opts, env))

PluginStarts ==
    \E platform \in {Undefined, Some("ios"), Some("android")}, output \in Outputs,
       unwritable \in {{}, {"ios"}} :
        StartedWith(CommandLine("plugin", "", <<"P", "u", "s", "h">>, platform, <<>>, output, FALSE, {}),
                    Surroundings(Undefined, <<>>, {}, unwritable, "ok"), {})

InitStarts ==
    \E platforms \in ConfigPlatforms \cup {<<"android">>},
       flags \in SUBSET {"--no-git"}, git \in {"ok", "fails"} :
        StartedWith(CommandLine("init", "", <<"a", "p", "p">>, Undefined, platforms, Undefined,
                                FALSE, flags),
                    Surroundings(Undefined, <<>>, {}, {}, git), {})

CommandStart ==
    GenerateStarts \/ UnknownTypeStarts \/ ComponentStarts \/ PluginStarts \/ InitStarts

\* ---- what the steps share ----
Logged(level, platform, message) ==
    Append(cliLog, [level |-> level, platform |-> platform, message |-> message])

\* the catch of the command's action: logger.error, process.exit(1)
Fails(platform, message) ==
    /\ cliPc' = "failed" /\ exitCode' = Some(1)
    /\ cliLog' = Logged("error", platform, message)

\* the platform the loop is at, and the file it may write there
Platforms == determinePlatforms(options.platform, cliEnv.config[1])

AtPlatform ==
    /\ cliOpts.command = "generate" /\ cliPc = "platform"
    /\ platIdx <= Len(Platforms)

CurrentDir == OutputDir(cliOpts.type, Platforms[platIdx], options.output)

CurrentName == ParsedName(cliOpts.type, cliEnv.sources[srcIdx], cliEnv.config[1])

CurrentPath == CurrentDir \o <<FileName(cliOpts.type, Platforms[platIdx], CurrentName)>>

CurrentCode ==
    Code(GeneratorClass(cliOpts.type, Platforms[platIdx]), cliEnv.sources[srcIdx].name)

\* a slip in the test: an existing file never holds the write back
KeepsExisting_never == FALSE

\* `await fs.pathExists(outputPath) && !options.overwrite`
KeepsExisting == pathExists(fsFiles, CurrentPath) /\ ~options.overwrite

\* ---- generate <type> ----
\* the default of the switch on the type
CliUnknownType ==
    /\ cliOpts.command = "generate" /\ cliPc = "start"
    /\ cliOpts.type \notin {"model", "api-client", "theme"}
    /\ cliPc' = "failed" /\ exitCode' = Some(1)
    /\ cliLog' = cliLog \o <<[level |-> "error", platform |-> "",
                              message |-> "Unknown generator type"],
                             [level |-> "info", platform |-> "",
                              message |-> "Available types: model, api-client, theme"]>>
    /\ UNCHANGED <<cliOpts, cliEnv, srcIdx, platIdx, fsDirs, fsFiles, fsStart,
                   generatedCount, reported, written, subprocesses>>
    /\ UNCHANGED OtherThanCommand

\* why the configuration or the source cannot be loaded; "" when they can
LoadError ==
    CASE cliEnv.config = Undefined -> "cuppa.config.json not found"
      [] ~options.from /\ ~cliEnv.config[1].source -> "No source file specified"
      [] cliEnv.sources = <<>> -> "No JSON schema files found"
      [] cliEnv.sources[1].state = "missing" -> "file not found"
      [] OTHER -> ""

\* up to the loop: the configuration is read and the source is found
CliLoad ==
    /\ cliOpts.command = "generate" /\ cliPc = "start"
    /\ cliOpts.type \in {"model", "api-client", "theme"}
    /\ LoadError = ""
    /\ cliPc' = "read" /\ srcIdx' = 1
    /\ UNCHANGED <<cliOpts, cliEnv, platIdx, fsDirs, fsFiles, fsStart, generatedCount,
                   reported, cliLog, exitCode, written, subprocesses>>
    /\ UNCHANGED OtherThanCommand

CliLoadFails ==
    /\ cliOpts.command = "generate" /\ cliPc = "start"
    /\ cliOpts.type \in {"model", "api-client", "theme"}
    /\ LoadError # ""
    /\ Fails("", LoadError)
    /\ UNCHANGED <<cliOpts, cliEnv, srcIdx, platIdx, fsDirs, fsFiles, fsStart,
                   generatedCount, reported, written, subprocesses>>
    /\ UNCHANGED OtherThanCommand

\* readJsonFile and parser.parse of the source
CliRead ==
    /\ cliOpts.command = "generate" /\ cliPc = "read"
    /\ cliEnv.sources[srcIdx].state = "ok"
    /\ cliPc' = "platform" /\ platIdx' = 1
    /\ cliLog' = Logged("log", "", "Generating")
    /\ UNCHANGED <<cliOpts, cliEnv, srcIdx, fsDirs, fsFiles, fsStart, generatedCount,
                   reported, exitCode, written, subprocesses>>
    /\ UNCHANGED OtherThanCommand

CliReadFails ==
    /\ cliOpts.command = "generate" /\ cliPc = "read"
    /\ cliEnv.sources[srcIdx].state \in UnreadableStates
    /\ Fails("", "Generation failed")
    /\ UNCHANGED <<cliOpts, cliEnv, srcIdx, platIdx, fsDirs, fsFiles, fsStart,
                   generatedCount, reported, written, subprocesses>>
    /\ UNCHANGED OtherThanCommand

\* the default of the switch on the platform: warn, continue
CliSkipUnsupported ==
    /\ AtPlatform
    /\ Platforms[platIdx] \notin GeneratePlatforms
    /\ fsDirs' = ensureDir(fsDirs, CurrentDir)
    /\ cliLog' = Logged("warn", Platforms[platIdx], "Skipping unsupported platform")
    /\ platIdx' = platIdx + 1
    /\ UNCHANGED <<cliOpts, cliEnv, cliPc, srcIdx, fsFiles, fsStart, generatedCount,
                   reported, exitCode, written, subprocesses>>
    /\ UNCHANGED OtherThanCommand

\* a slip in the skip: the file that was kept is counted as generated
CliSkipExisting_counted ==
    /\ AtPlatform
    /\ Platforms[platIdx] \in GeneratePlatforms
    /\ KeepsExisting
    /\ fsDirs' = ensureDir(fsDirs, CurrentDir)
    /\ cliLog' = Logged("warn", Platforms[platIdx],
                        "already exists (use --overwrite to replace)")
    /\ generatedCount' = generatedCount + 1
    /\ platIdx' = platIdx + 1
    /\ UNCHANGED <<cliOpts, cliEnv, cliPc, srcIdx, fsFiles, fsStart, reported, exitCode,
                   written, subprocesses>>
    /\ UNCHANGED OtherThanCommand

\* the file exists and --overwrite is not given: warn, continue
CliSkipExisting ==
    /\ AtPlatform
    /\ Platforms[platIdx] \in GeneratePlatforms
    /\ KeepsExisting
    /\ fsDirs' = ensureDir(fsDirs, CurrentDir)
    /\ cliLog' = Logged("warn", Platforms[platIdx],
                        "already exists (use --overwrite to replace)")
    /\ platIdx' = platIdx + 1
    /\ UNCHANGED <<cliOpts, cliEnv, cliPc, srcIdx, fsFiles, fsStart, generatedCount,
                   reported, exitCode, written, subprocesses>>
    /\ UNCHANGED OtherThanCommand

\* a slip in the preview: the file is written all the same
CliPreview_writes ==
    /\ AtPlatform
    /\ Platforms[platIdx] \in GeneratePlatforms
    /\ ~KeepsExisting
    /\ options.dryRun
    /\ fsDirs' = ensureDir(fsDirs, CurrentDir)
    /\ fsFiles' = fs_writeFile(fsFiles, CurrentPath, CurrentCode)
    /\ cliLog' = Logged("info", Platforms[platIdx], "Would write")
    /\ platIdx' = platIdx + 1
    /\ UNCHANGED <<cliOpts, cliEnv, cliPc, srcIdx, fsStart, generatedCount, reported,
                   exitCode, written, subprocesses>>
    /\ UNCHANGED OtherThanCommand

\* --dry-run: the file name and the code are logged
CliPreview ==
    /\ AtPlatform
    /\ Platforms[platIdx] \in GeneratePlatforms
    /\ ~KeepsExisting
    /\ options.dryRun
    /\ fsDirs' = ensureDir(fsDirs, CurrentDir)
    /\ cliLog' = Logged("info", Platforms[platIdx], "Would write")
    /\ platIdx' = platIdx + 1
    /\ UNCHANGED <<cliOpts, cliEnv, cliPc, srcIdx, fsFiles, fsStart, generatedCount,
                   reported, exitCode, written, subprocesses>>
    /\ UNCHANGED OtherThanCommand

\* writeFile(outputPath, code), logger.success, generatedCount++
CliWrite ==
    /\ AtPlatform
    /\ Platforms[platIdx] \in GeneratePlatforms
    /\ ~KeepsExisting
    /\ ~options.dryRun
    /\ Platforms[platIdx] \notin cliEnv.unwritable
    /\ fsDirs' = ensureDir(ensureDir(fsDirs, CurrentDir), dirname(CurrentPath))
    /\ fsFiles' = fs_writeFile(fsFiles, CurrentPath, CurrentCode)
    /\ written' = Append(written, [path |-> CurrentPath, content |-> CurrentCode])
    /\ cliLog' = Logged("success", Platforms[platIdx], "written")
    /\ generatedCount' = generatedCount + 1
    /\ platIdx' = platIdx + 1
    /\ UNCHANGED <<cliOpts, cliEnv, cliPc, srcIdx, fsStart, reported, exitCode,
                   subprocesses>>
    /\ UNCHANGED OtherThanCommand

\* a failed write that takes the files of the run back
CliWriteFails_rollback ==
    /\ AtPlatform
    /\ Platforms[platIdx] \in GeneratePlatforms
    /\ ~KeepsExisting
    /\ ~options.dryRun
    /\ Platforms[platIdx] \in cliEnv.unwritable
    /\ fsDirs' = ensureDir(ensureDir(fsDirs, CurrentDir), dirname(CurrentPath))
    /\ fsFiles' = fsStart.files
    /\ Fails("", "Generation failed")
    /\ UNCHANGED <<cliOpts, cliEnv, srcIdx, platIdx, fsStart, generatedCount, reported,
                   written, subprocesses>>
    /\ UNCHANGED OtherThanCommand

\* fs.writeFile rejects: the error reaches the catch of the command
CliWriteFails ==
    /\ AtPlatform
    /\ Platforms[platIdx] \in GeneratePlatforms
    /\ ~KeepsExisting
    /\ ~options.dryRun
    /\ Platforms[platIdx] \in cliEnv.unwritable
    /\ fsDirs' = ensureDir(ensureDir(fsDirs, CurrentDir), dirname(CurrentPath))
    /\ Fails("", "Generation failed")
    /\ UNCHANGED <<cliOpts, cliEnv, srcIdx, platIdx, fsFiles, fsStart, generatedCount,
                   reported, written, subprocesses>>
    /\ UNCHANGED OtherThanCommand

\* the loop over the platforms is through: the next schema file
CliNextFile ==
    /\ cliOpts.command = "generate" /\ cliPc = "platform"
    /\ platIdx > Len(Platforms)
    /\ srcIdx < Len(cliEnv.sources)
    /\ cliPc' = "read" /\ srcIdx' = srcIdx + 1
    /\ UNCHANGED <<cliOpts, cliEnv, platIdx, fsDirs, fsFiles, fsStart, generatedCount,
                   reported, cliLog, exitCode, written, subprocesses>>
    /\ UNCHANGED OtherThanCommand

\* the closing stopSpinner(true, ...) with the count, or the preview message
CliFinish ==
    /\ cliOpts.command = "generate" /\ cliPc = "platform"
    /\ platIdx > Len(Platforms)
    /\ srcIdx = Len(cliEnv.sources)
    /\ cliPc' = "done" /\ exitCode' = Some(0)
    /\ reported' = IF options.dryRun THEN Undefined ELSE Some(generatedCount)
    /\ cliLog' = Logged("success", "",
                        IF options.dryRun THEN "Preview complete" ELSE "Generated")
    /\ UNCHANGED <<cliOpts, cliEnv, srcIdx, platIdx, fsDirs, fsFiles, fsStart,
                   generatedCount, written, subprocesses>>
    /\ UNCHANGED OtherThanCommand

\* ---- component [name] ----
\* why the component specification cannot be loaded; "" when it can
ComponentSpecError ==
    CASE options.from /\ cliEnv.sources[1].state = "missing" ->
           "Component specification file not found"
      [] options.from /\ cliEnv.sources[1].state \in UnreadableStates ->
           "Component generation failed"
      [] ~options.from /\ cliOpts.name = <<>> ->
           "Either provide a component name or use --from option"
      [] OTHER -> ""

\* the whole of generateComponent and the catch around it
generateComponent ==
    /\ cliOpts.command = "component" /\ cliPc = "start"
    /\ LET platform == OrElse(options.platform, "ios")
           filePath == ComponentPath(cliOpts, cliEnv)
           componentCode ==
               Code(<<"Swift", "ComponentGenerator">>, ComponentName(cliOpts, cliEnv))
       IN  IF ComponentSpecError # ""
           THEN /\ Fails("", ComponentSpecError)
                /\ UNCHANGED <<fsDirs, fsFiles, written>>
           ELSE IF platform # "ios"
           THEN /\ fsDirs' = ensureDir(fsDirs, dirname(filePath))
                /\ Fails(platform, "not yet supported for component generation")
                /\ UNCHANGED <<fsFiles, written>>
           ELSE IF platform \in cliEnv.unwritable
           THEN /\ fsDirs' = ensureDir(fsDirs, dirname(filePath))
                /\ Fails("", "Component generation failed")
                /\ UNCHANGED <<fsFiles, written>>
           ELSE /\ fsDirs' = ensureDir(fsDirs, dirname(filePath))
                /\ fsFiles' = fs_writeFile(fsFiles, filePath, componentCode)
                /\ written' = Append(written, [path |-> filePath, content |-> componentCode])
                /\ cliLog' = Logged("success", platform, "File created")
                /\ cliPc' = "done" /\ exitCode' = Some(0)
    /\ UNCHANGED <<cliOpts, cliEnv, srcIdx, platIdx, fsStart, generatedCount, reported,
                   subprocesses>>
    /\ UNCHANGED OtherThanCommand

\* ---- plugin <name> ----
\* the keys of the Map that generatePlugin returns for the basic template
PluginFileNames(name) ==
    LET pluginName == <<"Cuppa">> \o name \o <<"Plugin">>
    IN  <<pluginName \o <<".swift">>,
          pluginName \o <<"Configuration", ".swift">>,
          name \o <<"Manager", ".swift">>,
          <<"README.md">>>>

RECURSIVE WriteAll(_, _, _, _)
\* the loop `for (const [fileName, content] of files)`: every file written
WriteAll(fsys, outputDir, fileNames, content) ==
    IF fileNames = <<>> THEN fsys
    ELSE WriteAll(fs_writeFile(fsys, outputDir \o <<Head(fileNames)>>, content),
                  outputDir, Tail(fileNames), content)

\* the whole of generatePlugin and the catch around it
generatePlugin ==
    /\ cliOpts.command = "plugin" /\ cliPc = "start"
    /\ LET platform == OrElse(options.platform, "ios")
           outputDir ==
               IF options.output # Undefined THEN options.output[1]
               ELSE Dir(<<"Plugins", IF platform = "ios" THEN "iOS" ELSE platform>>)
                        \o << <<"Cuppa">> \o cliOpts.name \o <<"Plugin">> >>
           fileNames == PluginFileNames(cliOpts.name)
           content == Code(<<"Swift", "PluginGenerator">>, cliOpts.name)
       IN  /\ fsDirs' = ensureDir(fsDirs, outputDir)
           /\ IF platform # "ios"
              THEN /\ Fails(platform, "not yet supported for plugin generation")
                   /\ UNCHANGED <<fsFiles, written, generatedCount, reported>>
              ELSE IF platform \in cliEnv.unwritable
              THEN /\ Fails("", "Plugin generation failed")
                   /\ UNCHANGED <<fsFiles, written, generatedCount, reported>>
              ELSE /\ fsFiles' = WriteAll(fsFiles, outputDir, fileNames, content)
                   /\ written' = written \o
                          [i \in 1..Len(fileNames) |->
                              [path |-> outputDir \o <<fileNames[i]>>, content |-> content]]
                   /\ generatedCount' = Len(fileNames)
                   /\ reported' = Some(Len(fileNames))
                   /\ cliLog' = Logged("success", platform, "Generated")
                   /\ cliPc' = "done" /\ exitCode' = Some(0)
    /\ UNCHANGED <<cliOpts, cliEnv, srcIdx, platIdx, fsStart, subprocesses>>
    /\ UNCHANGED OtherThanCommand

\* ---- init [project-name] ----
\* the directories createDirectoryStructure makes below the project root
ProjectDirs(projectRoot, platforms) ==
    {projectRoot \o Dir(<<"cuppa-specs", "models">>),
     projectRoot \o Dir(<<"cuppa-specs", "api">>),
     projectRoot \o Dir(<<"cuppa-specs", "design">>),
     projectRoot \o Dir(<<"cuppa-specs", "architecture">>),
     projectRoot \o Dir(<<"scripts">>)}
    \cup {projectRoot \o Dir(<<"platforms", platforms[i]>>) :
            i \in {j \in 1..Len(platforms) : platforms[j] \in {"ios", "android", "web"}}}

\* the whole of runInit.  The git part runs unless options.noGit is true; a
\* `git init` that fails is caught, and no .gitignore is written then.
runInit ==
    /\ cliOpts.command = "init" /\ cliPc = "start"
    /\ LET projectRoot == <<cliOpts.name>>
           gitRuns == options.noGit # Some(TRUE)
           gitignore ==
               IF gitRuns /\ cliEnv.git = "ok"
               THEN {[path |-> projectRoot \o Dir(<<".gitignore">>),
                      content |-> Code(<<"createGitignore">>, <<>>)]}
               ELSE {}
       IN  /\ fsDirs' = UNION {ensureDir(fsDirs, d) :
                                 d \in ProjectDirs(projectRoot, cliOpts.platforms)}
           /\ fsFiles' = fsFiles
                  \cup {[path |-> projectRoot \o Dir(<<"cuppa.config.json">>),
                         content |-> Code(<<"createCuppaConfig">>, cliOpts.name)],
                        [path |-> projectRoot \o Dir(<<"README.md">>),
                         content |-> Code(<<"createReadme">>, cliOpts.name)]}
                  \cup gitignore
           /\ subprocesses' = IF gitRuns THEN Append(subprocesses, "git init")
                              ELSE subprocesses
           /\ cliLog' = Logged("success", "", "Successfully created")
    /\ cliPc' = "done" /\ exitCode' = Some(0)
    /\ UNCHANGED <<cliOpts, cliEnv, srcIdx, platIdx, fsStart, generatedCount, reported,
                   written>>
    /\ UNCHANGED OtherThanCommand

CommandNext ==
    \/ CliUnknownType
    \/ CliLoad
    \/ CliLoadFails
    \/ CliRead
    \/ CliReadFails
    \/ CliSkipUnsupported
    \/ CliSkipExisting
    \/ CliPreview
    \/ CliWrite
    \/ CliWriteFails
    \/ CliNextFile
    \/ CliFinish
    \/ generateComponent
    \/ generatePlugin
    \/ runInit

\* ---- C22 ----
\* the platforms the switch of a command has a `case` for
GeneratorPlatforms(command) ==
    IF command = "generate" THEN GeneratePlatforms ELSE {"ios"}

\* the log entry is about a platform the command has no generator for
AboutUnsupported(entry) ==
    entry.platform # "" /\ entry.platform \notin GeneratorPlatforms(cliOpts.command)

\* C22: in generate, component and plugin, a requested platform without a
\* generator is reported as a warning and skipped: what the log says about
\* such a platform is a warning, never the error that ends the run with
\* exit code 1
C22_UnsupportedPlatformSkipped ==
    cliOpts.command \in {"generate", "component", "plugin"} =>
        \A i \in 1..Len(cliLog) :
            AboutUnsupported(cliLog[i]) =>
                cliLog[i].level = "warn" /\ exitCode # Some(1)

\* ---- C23 ----
\* the step changes or removes a file that was there
TouchesExisting ==
    \E f \in fsFiles : [path |-> f.path, content |-> f.content] \notin fsFiles'

\* the loop is at a platform with a generator whose output file exists, and
\* --overwrite is not given
AtKeptFile ==
    /\ AtPlatform /\ Platforms[platIdx] \in GeneratePlatforms
    /\ pathExists(fsFiles, CurrentPath) /\ ~options.overwrite

\* C23: in generate, a platform whose output file exists is, without
\* --overwrite, passed over: the files stay as they are, a warning about the
\* platform is logged, the run does not fail and goes on to the next
\* platform; and a step changes an existing file only with --overwrite and
\* without --dry-run
C23_ExistingFileKept ==
    [][cliOpts.command = "generate" =>
          /\ AtKeptFile =>
                /\ fsFiles' = fsFiles
                /\ cliLog' = Append(cliLog,
                       [level |-> "warn", platform |-> Platforms[platIdx],
                        message |-> "already exists (use --overwrite to replace)"])
                /\ cliPc' = "platform" /\ platIdx' = platIdx + 1
                /\ exitCode' = Undefined
          /\ TouchesExisting => options.overwrite /\ ~options.dryRun]_vars

\* a run that kept an existing file, went on, wrote another file and ended
C23_Witness ==
    /\ cliOpts.command = "generate" /\ cliPc = "done" /\ ~options.overwrite
    /\ \E i \in 1..Len(cliLog) : \E j \in (i + 1)..Len(cliLog) :
          /\ cliLog[i].level = "warn"
          /\ cliLog[i].message = "already exists (use --overwrite to replace)"
          /\ cliLog[j].level = "success" /\ cliLog[j].platform # ""
    /\ fsStart.files \subseteq fsFiles

\* ---- C24 ----
\* every write the run completed is on the disk with the content written
WritesInPlace(done, fsys) ==
    \A i \in 1..Len(done) : [path |-> done[i].path, content |-> done[i].content] \in fsys

\* C24: when a read, a parse or a write fails in the loop of generate, the
\* run ends there with the error logged and exit code 1, the files already
\* written stay in place with their content, and nothing happens after
C24_FailureStopsKeepsFiles ==
    [][cliOpts.command = "generate" =>
          /\ (cliPc \in {"read", "platform"} /\ cliPc' = "failed") =>
                /\ exitCode' = Some(1)
                /\ cliLog' = Append(cliLog, [level |-> "error", platform |-> "",
                                             message |-> "Generation failed"])
                /\ fsFiles' = fsFiles /\ written' = written
                /\ generatedCount' = generatedCount
                /\ WritesInPlace(written', fsFiles')
          /\ cliPc = "failed" => UNCHANGED commandVars]_vars

\* a write failed after another had been completed
C24_Witness ==
    /\ cliOpts.command = "generate" /\ cliPc = "failed"
    /\ written # <<>> /\ WritesInPlace(written, fsFiles)
    /\ cliEnv.unwritable # {}

\* ---- C25 ----
\* the configuration and every source can be read and parsed
InputsReadable ==
    /\ cliOpts.type \in {"model", "api-client", "theme"}
    /\ LoadError = ""
    /\ \A i \in 1..Len(cliEnv.sources) : cliEnv.sources[i].state = "ok"

\* C25: with --dry-run, generate writes no output file, whatever --overwrite
\* says and whatever exists: the files are those the run started with; and
\* the run does not fail when its inputs can be read, and ends with exit
\* code 0
C25_DryRunWritesNothing ==
    (cliOpts.command = "generate" /\ options.dryRun) =>
        /\ fsFiles = fsStart.files
        /\ written = <<>>
        /\ InputsReadable => cliPc # "failed"
        /\ cliPc = "done" => exitCode = Some(0)

\* a dry run with --overwrite over existing files that previewed one of them
C25_Witness ==
    /\ cliOpts.command = "generate" /\ options.dryRun /\ options.overwrite
    /\ cliPc = "done" /\ exitCode = Some(0)
    /\ fsStart.files # {} /\ fsFiles = fsStart.files
    /\ \E i \in 1..Len(cliLog) :
          /\ cliLog[i].message = "Would write"
          /\ cliLog[i].platform \in cliEnv.existing

\* ---- C26 ----
ProjectFile(name) == <<cliOpts.name, <<name>>>>

\* C26: init --no-git runs no `git init` and writes no .gitignore, and still
\* creates the directories, cuppa.config.json and README.md
C26_NoGitSkipsGit ==
    (cliOpts.command = "init" /\ "--no-git" \in cliOpts.flags /\ cliPc = "done") =>
        /\ \A i \in 1..Len(subprocesses) : subprocesses[i] # "git init"
        /\ ~pathExists(fsFiles, ProjectFile(".gitignore"))
        /\ pathExists(fsFiles, ProjectFile("cuppa.config.json"))
        /\ pathExists(fsFiles, ProjectFile("README.md"))
        /\ ProjectDirs(<<cliOpts.name>>, cliOpts.platforms) \subseteq fsDirs

\* ---- C27 ----
\* the files that are not as they were when the run started
FilesWritten(fsys) == fsys \ fsStart.files

\* C27: in generate, generatedCount goes up by one with each completed write
\* and with nothing else, and the count a run without --dry-run reports at
\* its end is the number of files it wrote
C27_CountIsWrites ==
    [][cliOpts.command = "generate" =>
          /\ generatedCount' - generatedCount = Len(written') - Len(written)
          /\ (cliPc' = "done" /\ ~options.dryRun) =>
                /\ reported' = Some(Len(written'))
                /\ Len(written') = Cardinality(FilesWritten(fsFiles'))]_vars

\* a run that wrote a file, passed over another and reported the count
C27_Witness ==
    /\ cliOpts.command = "generate" /\ cliPc = "done" /\ ~options.dryRun
    /\ reported = Some(Len(written)) /\ written # <<>>
    /\ \E i \in 1..Len(cliLog) : cliLog[i].level = "warn"

\* ---- C30 ----
\* C30: in generate, a platform for which nothing is written (no generator,
\* the file kept, or a preview) leaves the file system as it was: no output
\* directory is created for it
C30_SkippedPlatformTouchesNothing ==
    [][(AtPlatform /\ platIdx' = platIdx + 1 /\ written' = written) =>
          (fsDirs' = fsDirs /\ fsFiles' = fsFiles)]_vars

(***************************************************************************)
(* Specifications                                                          *)
(***************************************************************************)
SchemaInit == SchemaStart /\ APIIdle /\ ResolveIdle /\ TokensIdle /\ ComponentIdle
    /\ PluginIdle /\ GenerateIdle /\ CommandIdle /\ ClockIdle

SpecSchema == SchemaInit /\ [][SchemaNext]_vars

APIInit == APIStart /\ SchemaIdle /\ ResolveIdle /\ TokensIdle /\ ComponentIdle
    /\ PluginIdle /\ GenerateIdle /\ CommandIdle /\ ClockIdle

SpecAPI == APIInit /\ [][APINext]_vars

ResolveInit == ResolveStart /\ SchemaIdle /\ APIIdle /\ TokensIdle /\ ComponentIdle
    /\ PluginIdle /\ GenerateIdle /\ CommandIdle /\ ClockIdle

SpecResolve == ResolveInit /\ [][ResolveNext]_vars

TokensInit == TokensStart /\ SchemaIdle /\ APIIdle /\ ResolveIdle /\ ComponentIdle
    /\ PluginIdle /\ GenerateIdle /\ CommandIdle /\ ClockIdle

SpecTokens == TokensInit /\ [][TokensNext]_vars

ComponentInit == ComponentStart /\ SchemaIdle /\ APIIdle /\ ResolveIdle /\ TokensIdle
    /\ PluginIdle /\ GenerateIdle /\ CommandIdle /\ ClockIdle

SpecComponent == ComponentInit /\ [][ComponentNext]_vars

PluginInit ==
    /\ PluginStart /\ today \in {Dates[i] : i \in 1..Len(Dates)}
    /\ SchemaIdle /\ APIIdle /\ ResolveIdle /\ TokensIdle /\ ComponentIdle /\ GenerateIdle /\ CommandIdle

SpecPlugin == PluginInit /\ [][PluginNext]_vars

GenerateInit ==
    /\ GenerateStart /\ ClockIdle
    /\ SchemaIdle /\ APIIdle /\ ResolveIdle /\ TokensIdle /\ ComponentIdle
    /\ PluginIdle /\ CommandIdle

SpecGenerate == GenerateInit /\ [][GenerateNext]_vars

\* either parser at work
ParsersInit ==
    /\ \/ ComponentStart /\ PluginIdle /\ ClockIdle
       \/ PluginStart /\ ComponentIdle /\ ClockIdle
    /\ SchemaIdle /\ APIIdle /\ ResolveIdle /\ TokensIdle /\ GenerateIdle /\ CommandIdle

ParsersNext == ComponentNext \/ PluginNext

SpecParsers == ParsersInit /\ [][ParsersNext]_vars

CommandInit ==
    /\ SchemaIdle /\ APIIdle /\ ResolveIdle /\ TokensIdle /\ ComponentIdle
    /\ PluginIdle /\ GenerateIdle /\ ClockIdle
    /\ CommandStart

SpecCommand == CommandInit /\ [][CommandNext]_vars

====
